---- MODULE Spec2Model ----
(***************************************************************************)
(* graphql-merge-unmerge: the merge/unmerge engine (merge, mergeDefinitions,*)
(* mergeFields and the projection / error-path closures) and the Batch      *)
(* coordinator (queue, run, _runAndReport) of src/src/index.ts.             *)
(*                                                                          *)
(* Representation of the graphql AST and of JSON values:                    *)
(*   - `undefined` names / aliases are the empty string, an `undefined`     *)
(*     selectionSet / arguments / directives list is the empty sequence     *)
(*     (the parser never produces an empty selection set);                  *)
(*   - a value node is a record tagged by `kind`;                           *)
(*   - a response value is a record tagged by `t`: "obj" (keys, f), "arr"   *)
(*     (e), "null", "undef", "val" (a scalar, named by the field call that  *)
(*     produced it);                                                        *)
(*   - an error path step is [k |-> "key" | "idx", v |-> string];           *)
(*   - object identity (Map keys in the source) is the `oid` field.         *)
(***************************************************************************)
EXTENDS Integers, Sequences, FiniteSets, TLC

(***************************************************************************)
(* Bounds                                                                   *)
(***************************************************************************)
MaxQueries == 3
MaxQueue == 3

(***************************************************************************)
(* Generic helpers                                                          *)
(***************************************************************************)
Range(s) == {s[i] : i \in DOMAIN s}

RECURSIVE SeqFilter(_, _)
SeqFilter(s, keep) ==
  IF s = <<>> THEN <<>>
  ELSE IF Head(s) \in keep THEN <<Head(s)>> \o SeqFilter(Tail(s), keep)
  ELSE SeqFilter(Tail(s), keep)

\* index of the first element of s in the set hit, 0 when none (findIndex, 1-based)
RECURSIVE findIndexFrom(_, _, _)
findIndexFrom(s, hit, i) ==
  IF i > Len(s) THEN 0
  ELSE IF s[i] \in hit THEN i
  ELSE findIndexFrom(s, hit, i + 1)

Slice(s, from, to) == IF from > to THEN <<>> ELSE SubSeq(s, from, to)

\* obj[key] on a JS object kept as a function over strings
Get(obj, key) == IF key \in DOMAIN obj THEN obj[key] ELSE "undefined"
Put(obj, key, val) == [k \in (DOMAIN obj) \cup {key} |-> IF k = key THEN val ELSE obj[k]]
EmptyObj == [k \in {} |-> "undefined"]

(***************************************************************************)
(* AST constructors                                                         *)
(***************************************************************************)
UndefinedValue == [kind |-> "Undefined"]
Variable(n) == [kind |-> "Variable", name |-> n]
IntValue(v) == [kind |-> "IntValue", value |-> v]
ListValue(vs) == [kind |-> "ListValue", values |-> vs]
Argument(n, v) == [name |-> n, value |-> v]
Field(name, alias, arguments, selections) ==
  [kind |-> "Field", name |-> name, alias |-> alias, arguments |-> arguments,
   directives |-> <<>>, selectionSet |-> selections]
Leaf(name) == Field(name, "", <<>>, <<>>)
FragmentSpread(n) == [kind |-> "FragmentSpread", name |-> n]
InlineFragment(selections) == [kind |-> "InlineFragment", selectionSet |-> selections]
VariableDefinition(n, type) ==
  [name |-> n, type |-> type, defaultValue |-> UndefinedValue, directives |-> <<>>]
OperationDefinition(operation, vardefs, directives, selections) ==
  [kind |-> "OperationDefinition", operation |-> operation,
   variableDefinitions |-> vardefs, directives |-> directives,
   selectionSet |-> selections]
FragmentDefinition(oid, n, selections) ==
  [kind |-> "FragmentDefinition", oid |-> oid, name |-> n, directives |-> <<>>,
   selectionSet |-> selections]

\* selection.alias?.value || selection.name.value
outputName(f) == IF f.alias # "" THEN f.alias ELSE f.name

isField(s) == s.kind = "Field"
allFields(selections) == \A i \in DOMAIN selections : isField(selections[i])

(***************************************************************************)
(* generateAlphabeticNameFromNumber (package generate-alphabetic-name):     *)
(* 0 -> a, 1 -> b, ...  The test snapshots show the first minted names b,   *)
(* c, d for uniqueID 1, 2, 3.                                               *)
(***************************************************************************)
Alphabet ==
  <<"a", "b", "c", "d", "e", "f", "g", "h", "i", "j", "k", "l", "m",
    "n", "o", "p", "q", "r", "s", "t", "u", "v", "w", "x", "y", "z">>
generateAlphabeticNameFromNumber(n) == Alphabet[n + 1]

(***************************************************************************)
(* uniqueNameSet: the closure state is (usedNames, uniqueID); a call gives  *)
(* the name and the new state.                                              *)
(***************************************************************************)
uniqueNameSet(init) == [usedNames |-> init, uniqueID |-> 1]

RECURSIVE nextUnusedName(_, _)
nextUnusedName(usedNames, uniqueID) ==
  IF generateAlphabeticNameFromNumber(uniqueID) \in usedNames
  THEN nextUnusedName(usedNames, uniqueID + 1)
  ELSE [result |-> generateAlphabeticNameFromNumber(uniqueID), uniqueID |-> uniqueID + 1]

uniqueNameAsSuggested(st, suggestion) ==
  LET result == IF suggestion # "" THEN suggestion
                ELSE generateAlphabeticNameFromNumber(st.uniqueID)
  IN [result |-> result,
      state |-> [usedNames |-> st.usedNames \cup {result}, uniqueID |-> st.uniqueID + 1]]

uniqueName(st, suggestion) ==
  LET first == IF suggestion # ""
               THEN [result |-> suggestion, uniqueID |-> st.uniqueID]
               ELSE [result |-> generateAlphabeticNameFromNumber(st.uniqueID),
                     uniqueID |-> st.uniqueID + 1]
      final == IF first.result \in st.usedNames
               THEN nextUnusedName(st.usedNames, first.uniqueID)
               ELSE first
  IN [result |-> final.result,
      state |-> [usedNames |-> st.usedNames \cup {final.result},
                 uniqueID |-> final.uniqueID]]

(***************************************************************************)
(* Structural equality predicates                                           *)
(***************************************************************************)
ScalarKinds == {"BooleanValue", "FloatValue", "IntValue", "StringValue"}

valueNodesAreEqual(a, b) ==
  IF a.kind = "Undefined" /\ b.kind = "Undefined" THEN TRUE
  ELSE IF a.kind = "Undefined" \/ b.kind = "Undefined" THEN FALSE
  ELSE IF a.kind = "NullValue" /\ b.kind = "NullValue" THEN TRUE
  ELSE IF a.kind \in ScalarKinds /\ b.kind = a.kind THEN a.value = b.value
  ELSE FALSE

argumentEqual(a, b) ==
  /\ a.name = b.name
  /\ \/ /\ a.value.kind = "Variable"
        /\ b.value.kind = "Variable"
        /\ a.value.name = b.value.name
     \/ valueNodesAreEqual(a.value, b.value)

argumentsAreEqual(a, b) ==
  IF Len(a) = 0 /\ Len(b) = 0 THEN TRUE
  ELSE IF Len(a) # Len(b) THEN FALSE
  ELSE \A i \in DOMAIN a : \E j \in DOMAIN b : argumentEqual(a[i], b[j])

fieldsCanBeMergedAnyArguments(a, b) ==
  IF a.name # b.name THEN FALSE
  ELSE IF Len(a.directives) > 0 \/ Len(b.directives) > 0 THEN FALSE
  ELSE IF ~allFields(a.selectionSet) \/ ~allFields(b.selectionSet) THEN FALSE
  ELSE TRUE

fieldsCanBeMerged(a, b) ==
  IF a.name # b.name THEN FALSE
  ELSE IF Len(a.directives) > 0 \/ Len(b.directives) > 0 THEN FALSE
  ELSE IF ~argumentsAreEqual(a.arguments, b.arguments) THEN FALSE
  ELSE IF ~allFields(a.selectionSet) \/ ~allFields(b.selectionSet) THEN FALSE
  ELSE TRUE

(***************************************************************************)
(* renameVariables / renameFragments: a mapping is a function over the      *)
(* renamed original names (Map<string, string>)                             *)
(***************************************************************************)
RECURSIVE renameVariables(_, _)
renameVariables(set, variableMapping) ==
  IF DOMAIN variableMapping = {} THEN set
  ELSE [i \in DOMAIN set |->
         LET s == set[i] IN
         IF s.kind = "Field" THEN
           [s EXCEPT
              !.arguments =
                 [j \in DOMAIN s.arguments |->
                    LET a == s.arguments[j] IN
                    IF a.value.kind = "Variable"
                    THEN [a EXCEPT !.value.name =
                            IF a.value.name \in DOMAIN variableMapping
                            THEN variableMapping[a.value.name]
                            ELSE a.value.name]
                    ELSE a],
              !.selectionSet = renameVariables(s.selectionSet, variableMapping)]
         ELSE IF s.kind = "FragmentSpread" THEN s
         ELSE [s EXCEPT !.selectionSet = renameVariables(s.selectionSet, variableMapping)]]

renameNoFragments(set, fragmentNameMapping) == set

RECURSIVE renameFragments(_, _)
renameFragments(set, fragmentNameMapping) ==
  IF DOMAIN fragmentNameMapping = {} THEN set
  ELSE [i \in DOMAIN set |->
         LET s == set[i] IN
         IF s.kind = "Field" THEN
           [s EXCEPT !.selectionSet = renameFragments(s.selectionSet, fragmentNameMapping)]
         ELSE IF s.kind = "FragmentSpread" THEN
           IF s.name \in DOMAIN fragmentNameMapping
           THEN [s EXCEPT !.name = fragmentNameMapping[s.name]]
           ELSE s
         ELSE [s EXCEPT !.selectionSet = renameFragments(s.selectionSet, fragmentNameMapping)]]

(***************************************************************************)
(* Response values                                                          *)
(***************************************************************************)
Null == [t |-> "null"]
Undef == [t |-> "undef"]
Obj(f) == [t |-> "obj", f |-> f]
Arr(e) == [t |-> "arr", e |-> e]
\* value[key]: undefined for a missing key and for a scalar
valueAt(value, key) ==
  IF value.t = "obj" /\ key \in DOMAIN value.f THEN value.f[key] ELSE Undef
\* !value
falsy(value) == value.t \in {"null", "undef"}

Key(v) == [k |-> "key", v |-> v]
Idx(v) == [k |-> "idx", v |-> v]
\* path.findIndex((p) => typeof p === 'string'), 1-based, 0 when none
RECURSIVE keyIndexFrom(_, _)
keyIndexFrom(path, i) ==
  IF i > Len(path) THEN 0
  ELSE IF path[i].k = "key" THEN i
  ELSE keyIndexFrom(path, i + 1)
keyIndexOf(path) == keyIndexFrom(path, 1)

NoPath == [ok |-> FALSE, path |-> <<>>]
SomePath(p) == [ok |-> TRUE, path |-> p]

\* the last index i of `items` whose key (by keyOf) is k
lastWith(keys, k) == CHOOSE i \in DOMAIN keys : keys[i] = k /\ \A j \in DOMAIN keys : keys[j] = k => j <= i

(***************************************************************************)
(* selectSelectionSet / errorPathForSelectionSet: the projector of a field  *)
(* that was appended to the combined tree                                   *)
(***************************************************************************)
RECURSIVE selectSelectionSet(_, _)
selectSelectionSet(value, set) ==
  IF set = <<>> THEN value
  ELSE IF value.t = "arr"
  THEN Arr([i \in DOMAIN value.e |-> selectSelectionSet(value.e[i], set)])
  ELSE IF falsy(value) THEN value
  ELSE IF ~allFields(set) THEN value
  ELSE LET keys == [i \in DOMAIN set |-> outputName(set[i])]
       IN Obj([k \in Range(keys) |->
                 selectSelectionSet(valueAt(value, k), set[lastWith(keys, k)].selectionSet)])

\* the loop of errorPathForSelectionSet from selection i on
RECURSIVE errorPathForSelectionSet(_, _), errorPathForSelections(_, _, _, _)
errorPathForSelectionSet(path, set) ==
  IF set = <<>> THEN SomePath(path)
  ELSE IF keyIndexOf(path) = 0 THEN SomePath(path)
  ELSE errorPathForSelections(path, set, keyIndexOf(path), 1)

errorPathForSelections(path, set, keyIndex, i) ==
  IF i > Len(set) THEN NoPath
  ELSE IF set[i].kind # "Field" THEN SomePath(path)
  ELSE IF path[keyIndex].v = outputName(set[i])
  THEN IF errorPathForSelectionSet(Slice(path, keyIndex + 1, Len(path)),
                                   set[i].selectionSet).ok
       THEN SomePath(path)
       ELSE NoPath
  ELSE errorPathForSelections(path, set, keyIndex, i + 1)

(***************************************************************************)
(* Field mappings: children is "none" (undefined), "set" (the closure pair  *)
(* over newField.selectionSet) or "map" (the result of a nested mergeFields)*)
(***************************************************************************)
NoChildren == [type |-> "none", set |-> <<>>, mappings |-> <<>>]
SetChildren(set) == [type |-> "set", set |-> set, mappings |-> <<>>]
MapChildren(mappings) == [type |-> "map", set |-> <<>>, mappings |-> mappings]

RECURSIVE selectByFieldMappings(_, _)
selectByFieldMappings(value, set) ==
  IF value.t = "arr"
  THEN Arr([i \in DOMAIN value.e |-> selectByFieldMappings(value.e[i], set)])
  ELSE IF falsy(value) THEN value
  ELSE LET keys == [i \in DOMAIN set |-> set[i].output]
       IN Obj([k \in Range(keys) |->
                 LET mapping == set[lastWith(keys, k)]
                     slot == valueAt(value, mapping.alias)
                 IN IF mapping.children.type = "none" THEN slot
                    ELSE IF mapping.children.type = "set"
                    THEN selectSelectionSet(slot, mapping.children.set)
                    ELSE selectByFieldMappings(slot, mapping.children.mappings)])

\* the errorPath closure returned by mergeFields, over its fieldMappings
RECURSIVE errorPath(_, _), errorPathMappings(_, _, _, _)
errorPath(path, fieldMappings) ==
  IF keyIndexOf(path) = 0 THEN SomePath(path)
  ELSE errorPathMappings(path, fieldMappings, keyIndexOf(path), 1)

errorPathMappings(path, fieldMappings, keyIndex, i) ==
  IF i > Len(fieldMappings) THEN NoPath
  ELSE LET f == fieldMappings[i]
           before == Slice(path, 1, keyIndex - 1)
           childrenInput == Slice(path, keyIndex + 1, Len(path))
           childrenResult ==
             IF f.children.type = "set"
             THEN errorPathForSelectionSet(childrenInput, f.children.set)
             ELSE errorPath(childrenInput, f.children.mappings)
       IN IF f.alias = path[keyIndex].v
          THEN IF f.children.type = "none"
               THEN IF f.output = f.alias THEN SomePath(path)
                    ELSE SomePath(before \o <<Key(f.output)>>)
               ELSE IF ~childrenResult.ok THEN NoPath
               ELSE SomePath(before \o <<Key(f.output)>> \o childrenResult.path)
          ELSE errorPathMappings(path, fieldMappings, keyIndex, i + 1)

(***************************************************************************)
(* mergeFields: folds newFields into existingFields; gives the new list of  *)
(* existing fields (the source mutates the array) and the fieldMappings the *)
(* returned closures are built over                                         *)
(***************************************************************************)
RECURSIVE firstMergeable(_, _, _)
firstMergeable(existingFields, newField, i) ==
  IF i > Len(existingFields) THEN 0
  ELSE IF fieldsCanBeMerged(existingFields[i], newField) THEN i
  ELSE firstMergeable(existingFields, newField, i + 1)

RECURSIVE mergeFields(_, _), mergeFieldsFrom(_, _, _, _, _)
mergeFields(existingFields, newFields) ==
  mergeFieldsFrom(existingFields, newFields, 1,
                  uniqueNameSet({outputName(existingFields[i]) : i \in DOMAIN existingFields}),
                  <<>>)

mergeFieldsFrom(existingFields, newFields, i, aliasNames, fieldMappings) ==
  IF i > Len(newFields)
  THEN [existingFields |-> existingFields, fieldMappings |-> fieldMappings]
  ELSE
    LET newField == newFields[i]
        existingFieldIndex == firstMergeable(existingFields, newField, 1)
    IN IF existingFieldIndex = 0
       THEN LET minted == uniqueName(aliasNames, outputName(newField))
                aliasName == minted.result
                alias == IF aliasName = newField.name THEN "" ELSE aliasName
                unmergeable == ~allFields(newField.selectionSet)
            IN mergeFieldsFrom(
                 Append(existingFields, [newField EXCEPT !.alias = alias]),
                 newFields, i + 1, minted.state,
                 Append(fieldMappings,
                        [alias |-> aliasName, output |-> outputName(newField),
                         children |-> IF unmergeable THEN NoChildren
                                      ELSE SetChildren(newField.selectionSet)]))
       ELSE LET existing == existingFields[existingFieldIndex]
                both == existing.selectionSet # <<>> /\ newField.selectionSet # <<>>
                nested == mergeFields(existing.selectionSet, newField.selectionSet)
            IN mergeFieldsFrom(
                 [existingFields EXCEPT ![existingFieldIndex].selectionSet =
                    IF both THEN nested.existingFields ELSE existing.selectionSet],
                 newFields, i + 1, aliasNames,
                 Append(fieldMappings,
                        [alias |-> outputName(existing), output |-> outputName(newField),
                         children |-> IF both THEN MapChildren(nested.fieldMappings)
                                      ELSE NoChildren]))

(***************************************************************************)
(* mergeDefinitions                                                         *)
(***************************************************************************)
\* findExistingVariable without the comparison of the bound values
findExistingVariableAnyValue(defs, values, def, value, i) ==
  IF i > Len(defs) THEN "" ELSE defs[i].name

\* the name of the first definition that can stand for `def`, "" when none
RECURSIVE findExistingVariable(_, _, _, _, _)
findExistingVariable(defs, values, def, value, i) ==
  IF i > Len(defs) THEN ""
  ELSE IF /\ valueNodesAreEqual(defs[i].defaultValue, def.defaultValue)
          /\ Len(defs[i].directives) = 0
          /\ Len(def.directives) = 0
          /\ Get(values, defs[i].name) = value
  THEN defs[i].name
  ELSE findExistingVariable(defs, values, def, value, i + 1)

\* the loop over query.variableDefinitions; st holds variableNames,
\* variableDefinitions, variables and this query's variableMapping
RECURSIVE mergeVariables(_, _, _, _)
mergeVariables(vardefs, localVariables, i, st) ==
  IF i > Len(vardefs) THEN st
  ELSE
    LET vari == vardefs[i]
        originalName == vari.name
        existingVariable ==
          findExistingVariable(st.variableDefinitions, st.variables, vari,
                               Get(localVariables, originalName), 1)
        minted == uniqueName(st.variableNames, originalName)
        transformedName == IF existingVariable # "" THEN existingVariable ELSE minted.result
        mapping == IF originalName # transformedName
                   THEN Put(st.variableMapping, originalName, transformedName)
                   ELSE st.variableMapping
    IN mergeVariables(vardefs, localVariables, i + 1,
         IF existingVariable # ""
         THEN [st EXCEPT !.variableMapping = mapping]
         ELSE [variableNames |-> minted.state,
               variableDefinitions |->
                 Append(st.variableDefinitions, [vari EXCEPT !.name = transformedName]),
               variables |-> Put(st.variables, transformedName,
                                 Get(localVariables, originalName)),
               variableMapping |-> mapping])

\* the loop over definitions; extractResults[i] is the fieldMappings list the
\* i-th pair of closures (extractData, errorPath) is built over
RECURSIVE mergeDefinitionsFrom(_, _, _)
mergeDefinitionsFrom(definitions, i, acc) ==
  IF i > Len(definitions) THEN acc
  ELSE
    LET def == definitions[i]
        vars == mergeVariables(def.query.variableDefinitions, def.variables, 1,
                  [variableNames |-> acc.variableNames,
                   variableDefinitions |-> acc.variableDefinitions,
                   variables |-> acc.variables,
                   variableMapping |-> EmptyObj])
        folded == mergeFields(acc.selections,
                    renameVariables(def.query.selectionSet, vars.variableMapping))
    IN mergeDefinitionsFrom(definitions, i + 1,
         [variableNames |-> vars.variableNames,
          variableDefinitions |-> vars.variableDefinitions,
          variables |-> vars.variables,
          selections |-> folded.existingFields,
          extractResults |-> Append(acc.extractResults, folded.fieldMappings)])

\* the value mergeDefinitions returns, from what its loop collected
mergedDefinition(acc) ==
  [query |-> OperationDefinition("query", acc.variableDefinitions, <<>>, acc.selections),
   variables |-> acc.variables,
   extractResults |-> acc.extractResults]

mergeDefinitions(definitions) ==
  mergedDefinition(
    mergeDefinitionsFrom(definitions, 1,
      [variableNames |-> uniqueNameSet({}),
       variableDefinitions |-> <<>>,
       variables |-> EmptyObj,
       selections |-> <<>>,
       extractResults |-> <<>>]))

\* merged.unmergeData(data)
unmergeData(extractResults, data) ==
  [i \in DOMAIN extractResults |-> selectByFieldMappings(data, extractResults[i])]

\* an error of a response; error.path is optional
Error(message, path) == [message |-> message, hasPath |-> TRUE, path |-> path]
PathlessError(message) == [message |-> message, hasPath |-> FALSE, path |-> <<>>]

RECURSIVE unmergeErrorsWithPath(_, _)
unmergeErrorsWithPath(fieldMappings, errors) ==
  IF errors = <<>> THEN <<>>
  ELSE LET error == Head(errors)
           rest == unmergeErrorsWithPath(fieldMappings, Tail(errors))
           path == errorPath(error.path, fieldMappings)
       IN IF error.hasPath /\ path.ok
          THEN <<[error EXCEPT !.path = path.path]>> \o rest
          ELSE rest

RECURSIVE unmergeErrorsFor(_, _)
unmergeErrorsFor(fieldMappings, errors) ==
  IF errors = <<>> THEN <<>>
  ELSE LET error == Head(errors)
           rest == unmergeErrorsFor(fieldMappings, Tail(errors))
           path == errorPath(error.path, fieldMappings)
       IN IF error.hasPath
          THEN IF path.ok THEN <<[error EXCEPT !.path = path.path]>> \o rest ELSE rest
          ELSE <<error>> \o rest

\* merged.unmergeErrors(errors)
unmergeErrors(extractResults, errors) ==
  [i \in DOMAIN extractResults |-> unmergeErrorsFor(extractResults[i], errors)]

(***************************************************************************)
(* merge                                                                    *)
(***************************************************************************)
Query(oid, definitions, variables) ==
  [oid |-> oid, definitions |-> definitions, variables |-> variables]
\* `undefined` where a Query is expected
NoQuery == Query(0, <<>>, EmptyObj)
MergedOid == 0

RECURSIVE selectDefinitions(_, _)
selectDefinitions(definitions, kinds) ==
  IF definitions = <<>> THEN <<>>
  ELSE IF Head(definitions).kind \in kinds
  THEN <<Head(definitions)>> \o selectDefinitions(Tail(definitions), kinds)
  ELSE selectDefinitions(Tail(definitions), kinds)

\* q.query.definitions.filter(OperationDefinition with operation 'query')
RECURSIVE queryOps(_)
queryOps(definitions) ==
  IF definitions = <<>> THEN <<>>
  ELSE IF Head(definitions).kind = "OperationDefinition" /\ Head(definitions).operation = "query"
  THEN <<Head(definitions)>> \o queryOps(Tail(definitions))
  ELSE queryOps(Tail(definitions))

canMergeWithDirectives(q) ==
  /\ \A i \in DOMAIN q.definitions :
       LET d == q.definitions[i] IN
       \/ /\ d.kind = "OperationDefinition"
          /\ d.operation = "query"
          /\ allFields(d.selectionSet)
       \/ d.kind = "FragmentDefinition"
  /\ Len(queryOps(q.definitions)) = 1

\* the condition of the eligibility filter
canMerge(q) ==
  /\ \A i \in DOMAIN q.definitions :
       LET d == q.definitions[i] IN
       /\ \/ /\ d.kind = "OperationDefinition"
             /\ d.operation = "query"
             /\ allFields(d.selectionSet)
          \/ d.kind = "FragmentDefinition"
       /\ Len(d.directives) = 0
  /\ Len(queryOps(q.definitions)) = 1

\* the loop over the fragment definitions of one query; st holds fragments,
\* nextFragmentName, fragmentNames (keyed by the definition's identity) and
\* this query's fragmentNameMapping
RECURSIVE mergeFragments(_, _, _)
mergeFragments(defs, i, st) ==
  IF i > Len(defs) THEN st
  ELSE
    LET fragment == defs[i]
        oldName == fragment.name
        known == fragment.oid \in DOMAIN st.fragmentNames
        minted == uniqueName(st.nextFragmentName, oldName)
        newName == IF known THEN st.fragmentNames[fragment.oid] ELSE minted.result
        mapping == IF oldName # newName
                   THEN Put(st.fragmentNameMapping, oldName, newName)
                   ELSE st.fragmentNameMapping
    IN mergeFragments(defs, i + 1,
         IF known
         THEN [st EXCEPT !.fragmentNameMapping = mapping]
         ELSE [fragments |-> Append(st.fragments, [fragment EXCEPT !.name = newName]),
               nextFragmentName |-> minted.state,
               fragmentNames |-> Put(st.fragmentNames, fragment.oid, newName),
               fragmentNameMapping |-> mapping])

\* the loop `for (const q of queries)`
RECURSIVE mergeQueriesFrom(_, _, _)
mergeQueriesFrom(queries, i, acc) ==
  IF i > Len(queries) THEN acc
  ELSE
    LET q == queries[i] IN
    IF canMerge(q)
    THEN LET query == queryOps(q.definitions)[1]
             fr == mergeFragments(selectDefinitions(q.definitions, {"FragmentDefinition"}), 1,
                     [fragments |-> acc.fragments,
                      nextFragmentName |-> acc.nextFragmentName,
                      fragmentNames |-> acc.fragmentNames,
                      fragmentNameMapping |-> EmptyObj])
         IN mergeQueriesFrom(queries, i + 1,
              [acc EXCEPT
                 !.fragments = fr.fragments,
                 !.nextFragmentName = fr.nextFragmentName,
                 !.fragmentNames = fr.fragmentNames,
                 !.definitions = Append(@,
                    [query |-> q,
                     definition |->
                       [query |-> [query EXCEPT !.selectionSet =
                                     renameFragments(@, fr.fragmentNameMapping)],
                        variables |-> q.variables]]),
                 !.mergedQueries = Append(@, q)])
    ELSE mergeQueriesFrom(queries, i + 1, [acc EXCEPT !.unmergedQueries = Append(@, q)])

\* The result of merge(queries).  The closures unmergeMergedQueries and
\* unmergeAllQueries are the operators below, applied to this record:
\* `single` marks the early return, `definitions` and `extractResults` are
\* what the closures capture.
mergeSingle(queries) ==
  [single |-> TRUE, hasMerged |-> FALSE, mergedQuery |-> NoQuery,
   mergedQueries |-> <<>>, unmergedQueries |-> queries, allQueries |-> queries,
   queries |-> queries, definitions |-> <<>>, extractResults |-> <<>>]

\* the value merge returns, from what the loop over the queries collected
\* (acc) and the merged definitions
mergeReturn(queries, acc, merged) ==
  LET hasMerged == Len(acc.definitions) > 0
      mergedQuery == Query(MergedOid, <<merged.query>> \o acc.fragments, merged.variables)
  IN [single |-> FALSE, hasMerged |-> hasMerged,
      mergedQuery |-> IF hasMerged THEN mergedQuery ELSE NoQuery,
      mergedQueries |-> acc.mergedQueries,
      unmergedQueries |-> acc.unmergedQueries,
      allQueries |-> IF hasMerged THEN <<mergedQuery>> \o acc.unmergedQueries
                     ELSE acc.unmergedQueries,
      queries |-> queries,
      definitions |-> [i \in DOMAIN acc.definitions |-> acc.definitions[i].query],
      extractResults |-> IF hasMerged THEN merged.extractResults ELSE <<>>]

\* const merged = definitions.length ? mergeDefinitions(...) : undefined
mergeCollected(queries, acc) ==
  mergeReturn(queries, acc,
    mergeDefinitions([i \in DOMAIN acc.definitions |-> acc.definitions[i].definition]))

mergeMany(queries) ==
  mergeCollected(queries,
    mergeQueriesFrom(queries, 1,
      [fragments |-> <<>>, nextFragmentName |-> uniqueNameSet({}),
       fragmentNames |-> EmptyObj, definitions |-> <<>>,
       mergedQueries |-> <<>>, unmergedQueries |-> <<>>]))

\* merge() without the early return for a single query
mergeWithoutSingleton(queries) == mergeMany(queries)

merge(queries) ==
  IF Len(queries) = 1 THEN mergeSingle(queries) ELSE mergeMany(queries)

(***************************************************************************)
(* Responses and the unmerge closures                                       *)
(***************************************************************************)
\* {data, errors}; errors: undefined is hasErrors = FALSE
Response(data, hasErrors, errors) == [data |-> data, hasErrors |-> hasErrors, errors |-> errors]
NoResponse == Response(Undef, FALSE, <<>>)

\* resultsMap.get(q) after the assignments `sets` (a sequence of <<query, response>>
\* in the order of the set calls): the last assignment to the same object wins
RECURSIVE resultsMapGet(_, _, _)
resultsMapGet(sets, q, i) ==
  IF i = 0 THEN NoResponse
  ELSE IF sets[i][1].oid = q.oid THEN sets[i][2]
  ELSE resultsMapGet(sets, q, i - 1)

\* the resultsMap entries both closures make from the combined response
mergedResultSets(m, mergedResults) ==
  LET unmergedData == unmergeData(m.extractResults, mergedResults.data)
      unmergedErrors == unmergeErrors(m.extractResults,
                                      IF mergedResults.hasErrors THEN mergedResults.errors
                                      ELSE <<>>)
  IN [i \in DOMAIN m.definitions |->
        <<m.definitions[i],
          Response(unmergedData[i], Len(unmergedErrors[i]) > 0, unmergedErrors[i])>>]

unmergeMergedQueries(m, mergedResults) ==
  LET sets == mergedResultSets(m, mergedResults)
  IN [i \in DOMAIN m.mergedQueries |-> resultsMapGet(sets, m.mergedQueries[i], Len(sets))]

unmergeAllQueries(m, results) ==
  IF m.single \/ ~m.hasMerged THEN results
  ELSE LET otherResults == Tail(results)
           sets == mergedResultSets(m, Head(results)) \o
                   [i \in DOMAIN otherResults |-> <<m.unmergedQueries[i], otherResults[i]>>]
       IN [i \in DOMAIN m.queries |-> resultsMapGet(sets, m.queries[i], Len(sets))]

(***************************************************************************)
(* The query-serving endpoint (external): the schema of the test suite,     *)
(* answering every field call by a value that names the call, so that the   *)
(* same field with the same resolved arguments under the same parent gets   *)
(* the same answer in every document.  `failing` is the set of field calls  *)
(* the server cannot satisfy, each [parent, name].                          *)
(***************************************************************************)
ListFields == {"teams", "users"}
RequiredFields == {"teamRequired", "errorable", "name", "id"}
ListLen == 2
IdxNames == <<"0", "1", "2", "3", "4", "5", "6", "7">>
\* user(id: 42): no such record
MissingId == "42"

Resolved(k, v, vs) == [k |-> k, v |-> v, vs |-> vs]
RECURSIVE resolveValue(_, _)
resolveValue(v, variables) ==
  IF v.kind = "Variable" THEN Resolved("lit", Get(variables, v.name), <<>>)
  ELSE IF v.kind = "ListValue"
  THEN Resolved("list", "", [i \in DOMAIN v.values |-> resolveValue(v.values[i], variables)])
  ELSE IF v.kind \in ScalarKinds THEN Resolved("lit", v.value, <<>>)
  ELSE Resolved(v.kind, "", <<>>)

resolveArguments(arguments, variables) ==
  {[name |-> arguments[i].name, value |-> resolveValue(arguments[i].value, variables)] :
     i \in DOMAIN arguments}

\* the fields a selection set asks for, fragments expanded in place
RECURSIVE collectFields(_, _)
collectFields(selections, fragments) ==
  IF selections = <<>> THEN <<>>
  ELSE LET s == Head(selections)
           rest == collectFields(Tail(selections), fragments)
           named == {i \in DOMAIN fragments : fragments[i].name = s.name}
       IN IF s.kind = "Field" THEN <<s>> \o rest
          ELSE IF s.kind = "InlineFragment"
          THEN collectFields(s.selectionSet, fragments) \o rest
          ELSE IF named = {} THEN rest
          ELSE collectFields(fragments[CHOOSE i \in named : TRUE].selectionSet, fragments) \o rest

RECURSIVE flatten(_)
flatten(ss) == IF ss = <<>> THEN <<>> ELSE Head(ss) \o flatten(Tail(ss))

firstWith(keys, k) == CHOOSE i \in DOMAIN keys : keys[i] = k /\ \A j \in DOMAIN keys : keys[j] = k => i <= j

RECURSIVE executeField(_, _, _, _), executeSelectionSet(_, _, _, _)
executeField(field, env, context, path) ==
  LET call == [name |-> field.name, args |-> resolveArguments(field.arguments, env.variables)]
      parent == IF context = <<>> THEN "" ELSE context[Len(context)].name
      here == Append(context, call)
      at == Append(path, Key(outputName(field)))
      required == field.name \in RequiredFields
      item(i) == [name |-> field.name,
                  args |-> {[name |-> "#", value |-> Resolved("lit", IdxNames[i], <<>>)]}]
      element(i) == executeSelectionSet(field.selectionSet, env, Append(here, item(i)),
                                        Append(at, Idx(IdxNames[i])))
      elements == [i \in 1..ListLen |-> element(i)]
      object == executeSelectionSet(field.selectionSet, env, here, at)
  IN IF [parent |-> parent, name |-> field.name] \in env.failing
     THEN [value |-> Null, errors |-> <<Error(field.name, at)>>, bubble |-> required]
     ELSE IF \E a \in call.args : a.value.v = MissingId
     THEN [value |-> Null, errors |-> <<>>, bubble |-> FALSE]
     ELSE IF field.selectionSet = <<>>
     THEN [value |-> [t |-> "val", at |-> here], errors |-> <<>>, bubble |-> FALSE]
     ELSE IF field.name \in ListFields
     THEN IF \E i \in 1..ListLen : elements[i].bubble
          THEN [value |-> Null, errors |-> flatten([i \in 1..ListLen |-> elements[i].errors]),
                bubble |-> required]
          ELSE [value |-> Arr([i \in 1..ListLen |-> elements[i].value]),
                errors |-> flatten([i \in 1..ListLen |-> elements[i].errors]),
                bubble |-> FALSE]
     ELSE IF object.bubble
     THEN [value |-> Null, errors |-> object.errors, bubble |-> required]
     ELSE [value |-> object.value, errors |-> object.errors, bubble |-> FALSE]

executeSelectionSet(selections, env, context, path) ==
  LET fields == collectFields(selections, env.fragments)
      keys == [i \in DOMAIN fields |-> outputName(fields[i])]
      firsts == {i \in DOMAIN fields : firstWith(keys, keys[i]) = i}
      result == [i \in DOMAIN fields |->
                   IF i \in firsts THEN executeField(fields[i], env, context, path)
                   ELSE [value |-> Undef, errors |-> <<>>, bubble |-> FALSE]]
  IN [value |-> Obj([k \in Range(keys) |-> result[firstWith(keys, k)].value]),
      errors |-> flatten([i \in DOMAIN fields |-> result[i].errors]),
      bubble |-> \E i \in DOMAIN fields : result[i].bubble]

\* the request as a whole fails in a way the server reports without a path
Unscoped == [parent |-> "#", name |-> "#request"]

\* server.executeOperation({query, variables})
executeOperation(q, failing) ==
  LET operations == selectDefinitions(q.definitions, {"OperationDefinition"})
      result == executeSelectionSet(operations[1].selectionSet,
                  [variables |-> q.variables,
                   fragments |-> selectDefinitions(q.definitions, {"FragmentDefinition"}),
                   failing |-> failing],
                  <<>>, <<>>)
      errors == result.errors \o (IF Unscoped \in failing
                                  THEN <<PathlessError("unscoped")>> ELSE <<>>)
  IN Response(IF result.bubble THEN Null ELSE result.value, Len(errors) > 0, errors)

(***************************************************************************)
(* The documents the inputs are drawn from (those of the README and of the  *)
(* test suite, and the shapes each branch of merge needs)                   *)
(***************************************************************************)
IdDef == <<VariableDefinition("id", "Int!")>>
IdArg == <<Argument("id", Variable("id"))>>
Id(v) == [id |-> v]
QueryDoc(vardefs, selections) == <<OperationDefinition("query", vardefs, <<>>, selections)>>

Documents ==
  << \* 1, 2: the README's pair, folded into one user field
     [definitions |-> QueryDoc(IdDef, <<Field("user", "", IdArg,
                         <<Leaf("id"), Field("teams", "", <<>>, <<Leaf("name")>>)>>)>>),
      variables |-> Id("3")],
     [definitions |-> QueryDoc(IdDef, <<Field("user", "", IdArg, <<Leaf("id"), Leaf("name")>>)>>),
      variables |-> Id("3")],
     \* 3: the same variable name bound to another value
     [definitions |-> QueryDoc(IdDef, <<Field("user", "", IdArg, <<Leaf("name")>>)>>),
      variables |-> Id("4")],
     \* 4: a field whose children are not plain fields
     [definitions |-> QueryDoc(IdDef, <<Field("node", "", IdArg,
                         <<InlineFragment(<<Leaf("name")>>)>>)>>),
      variables |-> Id("4")],
     \* 5: the non-nullable field of the 'batch' test
     [definitions |-> QueryDoc(IdDef, <<Field("teamRequired", "", IdArg, <<Leaf("name")>>)>>),
      variables |-> Id("9")],
     \* 6: not a read query
     [definitions |-> <<OperationDefinition("mutation", <<>>, <<>>,
                          <<Field("addUser", "", <<>>, <<Leaf("id")>>)>>)>>,
      variables |-> EmptyObj],
     \* 7: a variable inside a list argument
     [definitions |-> QueryDoc(IdDef, <<Field("users", "", <<Argument("ids",
                         ListValue(<<Variable("id")>>))>>, <<Leaf("id")>>)>>),
      variables |-> Id("4")],
     \* 8: an alias that is another query's field name, a literal argument
     [definitions |-> QueryDoc(<<>>, <<Field("team", "node",
                         <<Argument("id", IntValue("1"))>>, <<Leaf("name")>>)>>),
      variables |-> EmptyObj],
     \* 9: the 'batch fragments' shape
     [definitions |-> QueryDoc(IdDef, <<Field("user", "", IdArg,
                         <<Leaf("id"), FragmentSpread("UserTeams")>>)>>)
                      \o <<FragmentDefinition(1, "UserTeams",
                             <<Field("teams", "", <<>>, <<Leaf("name")>>)>>)>>,
      variables |-> Id("3")] >>

\* what the server may be unable to satisfy
Failures ==
  { {},
    {[parent |-> "", name |-> "teamRequired"]},
    {[parent |-> "node", name |-> "name"]},
    {[parent |-> "", name |-> "team"]} }

(***************************************************************************)
(* State                                                                    *)
(***************************************************************************)
VARIABLES
  failing,     \* what the server cannot satisfy (fixed for a behaviour)
  \* the merge engine used directly
  queries,     \* the argument of merge(): a list of Query objects
  stamped,     \* TRUE: every call for an uncombined query answers differently
  phase,       \* "input", "merged", "dispatched", "unmerged"
  merged,      \* the value merge() returned
  responses,   \* one response per entry of merged.allQueries
  results,     \* the value unmergeAllQueries returned
  \* a Batch
  started,     \* Batch._started
  queue,       \* Batch._queue: the clones, oid = position
  handles,     \* Batch._resolvers: the promise queue() returned, per clone
  passes,      \* the invocations of _runAndReport
  calls,       \* the invocations of the executor (Batch._run)
  runState,    \* the promise run() returned: "idle", "running", "finished"
  api          \* the latest call of queue() or run() and whether it threw

engineVars == <<queries, stamped, phase, merged, responses, results>>
batchVars == <<started, queue, handles, passes, calls, runState, api>>
vars == <<failing, engineVars, batchVars>>

(***************************************************************************)
(* The merge engine used directly (README, "Usage")                         *)
(***************************************************************************)
\* the input lists: entry i is a copy of document choice[i]; with `shared`,
\* equal choices are one and the same object
InputList(choice, shared) ==
  [i \in DOMAIN choice |->
     Query(IF shared THEN choice[i] ELSE i, Documents[choice[i]].definitions,
           Documents[choice[i]].variables)]

hasUnmergeable(qs) == \E i \in DOMAIN qs : ~canMerge(qs[i])
hasRepeats(choice) == \E i, j \in DOMAIN choice : i # j /\ choice[i] = choice[j]

\* a response that names the call it answers
Stamp(i) ==
  Response([t |-> "val",
            at |-> <<[name |-> "#response",
                      args |-> {[name |-> "#", value |-> Resolved("lit", IdxNames[i], <<>>)]}]>>],
           FALSE, <<>>)

IdleEngine ==
  /\ queries = <<>>
  /\ stamped = FALSE
  /\ phase = "input"
  /\ merged = mergeSingle(<<>>)
  /\ responses = <<>>
  /\ results = <<>>

IdleBatch ==
  /\ started = FALSE
  /\ queue = <<>>
  /\ handles = <<>>
  /\ passes = <<>>
  /\ calls = <<>>
  /\ runState = "idle"
  /\ api = [op |-> "none", threw |-> FALSE]

InitEngine ==
  /\ \E n \in 0..MaxQueries :
       \E choice \in [1..n -> DOMAIN Documents] :
         \E shared \in (IF hasRepeats(choice) THEN BOOLEAN ELSE {FALSE}) :
           /\ queries = InputList(choice, shared)
           /\ stamped \in (IF hasUnmergeable(InputList(choice, shared)) THEN BOOLEAN ELSE {FALSE})
  /\ failing \in Failures
  /\ phase = "input"
  /\ merged = mergeSingle(<<>>)
  /\ responses = <<>>
  /\ results = <<>>
  /\ IdleBatch

CallMerge ==
  /\ phase = "input"
  /\ merged' = merge(queries)
  /\ phase' = "merged"
  /\ UNCHANGED <<failing, queries, stamped, responses, results, batchVars>>

\* merged.allQueries.map(callGraphQLServer)
Dispatch ==
  /\ phase = "merged"
  /\ responses' = [i \in DOMAIN merged.allQueries |->
                     IF stamped /\ merged.allQueries[i].oid # MergedOid
                     THEN Stamp(i)
                     ELSE executeOperation(merged.allQueries[i], failing)]
  /\ phase' = "dispatched"
  /\ UNCHANGED <<failing, queries, stamped, merged, results, batchVars>>

CallUnmergeAllQueries ==
  /\ phase = "dispatched"
  /\ results' = unmergeAllQueries(merged, responses)
  /\ phase' = "unmerged"
  /\ UNCHANGED <<failing, queries, stamped, merged, responses, batchVars>>

NextEngine == CallMerge \/ Dispatch \/ CallUnmergeAllQueries

SpecEngine == InitEngine /\ [][NextEngine]_vars

(***************************************************************************)
(* The merge engine on documents that bring names of their own: aliases,    *)
(* and names that the alphabetic sequence mints too ("b", "c", ...)         *)
(***************************************************************************)
LitArg(v) == <<Argument("id", IntValue(v))>>
UserTeams == FragmentDefinition(1, "UserTeams", <<Field("teams", "", <<>>, <<Leaf("name")>>)>>)

NameDocuments ==
  << \* 1, 2: one field, two literal arguments
     [definitions |-> QueryDoc(<<>>, <<Field("user", "", LitArg("3"), <<Leaf("name")>>)>>),
      variables |-> EmptyObj],
     [definitions |-> QueryDoc(<<>>, <<Field("user", "", LitArg("4"), <<Leaf("name")>>)>>),
      variables |-> EmptyObj],
     \* 3, 4: the same fields under aliases of the caller
     [definitions |-> QueryDoc(<<>>, <<Field("user", "me", LitArg("3"), <<Leaf("name")>>)>>),
      variables |-> EmptyObj],
     [definitions |-> QueryDoc(<<>>, <<Field("user", "you", LitArg("4"), <<Leaf("name")>>)>>),
      variables |-> EmptyObj],
     \* 5: an alias that is another query's field name
     [definitions |-> QueryDoc(<<>>, <<Field("team", "user", LitArg("1"), <<Leaf("name")>>)>>),
      variables |-> EmptyObj],
     \* 6, 7: a field whose name is a minted name
     [definitions |-> QueryDoc(<<>>, <<Field("b", "", LitArg("1"), <<Leaf("name")>>)>>),
      variables |-> EmptyObj],
     [definitions |-> QueryDoc(<<>>, <<Field("b", "", LitArg("2"), <<Leaf("name")>>)>>),
      variables |-> EmptyObj],
     \* 8, 9: two queries that carry one and the same fragment definition
     [definitions |-> QueryDoc(IdDef, <<Field("user", "", IdArg,
                         <<FragmentSpread("UserTeams")>>)>>) \o <<UserTeams>>,
      variables |-> Id("3")],
     [definitions |-> QueryDoc(IdDef, <<Field("user", "", IdArg,
                         <<Leaf("id"), FragmentSpread("UserTeams")>>)>>) \o <<UserTeams>>,
      variables |-> Id("4")],
     \* 10: another fragment definition of the same name
     [definitions |-> QueryDoc(IdDef, <<Field("user", "", IdArg,
                         <<FragmentSpread("UserTeams")>>)>>)
                      \o <<FragmentDefinition(2, "UserTeams", <<Leaf("name")>>)>>,
      variables |-> Id("4")],
     \* 11: a variable and a fragment whose names are minted names
     [definitions |-> QueryDoc(<<VariableDefinition("b", "Int!")>>,
                        <<Field("user", "", <<Argument("id", Variable("b"))>>,
                            <<FragmentSpread("b")>>)>>)
                      \o <<FragmentDefinition(3, "b", <<Leaf("id")>>)>>,
      variables |-> [b |-> "5"]],
     \* 12, 13: spreads below a field that is folded, two definitions of one name
     [definitions |-> QueryDoc(IdDef, <<Field("user", "", IdArg,
                         <<Leaf("id"), Field("teams", "", <<>>, <<FragmentSpread("TeamFields")>>)>>)>>)
                      \o <<FragmentDefinition(4, "TeamFields", <<Leaf("name")>>)>>,
      variables |-> Id("3")],
     [definitions |-> QueryDoc(IdDef, <<Field("user", "", IdArg,
                         <<Field("teams", "", <<>>, <<FragmentSpread("TeamFields")>>)>>)>>)
                      \o <<FragmentDefinition(5, "TeamFields", <<Leaf("id")>>)>>,
      variables |-> Id("3")] >>

\* an input list is drawn from the documents that differ in their aliases,
\* or in their variables and fragments
NameGroups == {1..7, 8..13}

NameList(choice) ==
  [i \in DOMAIN choice |->
     Query(i, NameDocuments[choice[i]].definitions, NameDocuments[choice[i]].variables)]

InitNames ==
  /\ \E n \in 0..MaxQueries :
       \E group \in NameGroups :
         \E choice \in [1..n -> group] : queries = NameList(choice)
  /\ failing = {}
  /\ stamped = FALSE
  /\ phase = "input"
  /\ merged = mergeSingle(<<>>)
  /\ responses = <<>>
  /\ results = <<>>
  /\ IdleBatch

SpecNames == InitNames /\ [][NextEngine]_vars

(***************************************************************************)
(* The merge engine on documents of every shape the eligibility filter      *)
(* tells apart                                                              *)
(***************************************************************************)
UserName(v) == Field("user", "", LitArg(v), <<Leaf("name")>>)
AddUser == OperationDefinition("mutation", <<>>, <<>>, <<Field("addUser", "", <<>>, <<Leaf("id")>>)>>)

ShapeDocuments ==
  << \* 1: one query operation of plain fields
     QueryDoc(<<>>, <<UserName("3")>>),
     \* 2: a directive on the operation
     <<OperationDefinition("query", <<>>, <<"live">>, <<UserName("4")>>)>>,
     \* 3: a mutation
     <<AddUser>>,
     \* 4: two query operations
     QueryDoc(<<>>, <<UserName("3")>>) \o QueryDoc(<<>>, <<UserName("4")>>),
     \* 5: a top-level selection that is not a field
     QueryDoc(<<>>, <<UserName("3"), InlineFragment(<<UserName("4")>>)>>),
     \* 6: a fragment definition, spread below the top level
     QueryDoc(<<>>, <<Field("user", "", LitArg("3"), <<FragmentSpread("UserTeams")>>)>>)
       \o <<UserTeams>>,
     \* 7: a directive on the fragment definition
     QueryDoc(<<>>, <<Field("user", "", LitArg("4"), <<FragmentSpread("UserTeams")>>)>>)
       \o <<[FragmentDefinition(2, "UserTeams", <<Leaf("name")>>) EXCEPT !.directives = <<"live">>]>>,
     \* 8: a query operation and a mutation
     QueryDoc(<<>>, <<UserName("3")>>) \o <<AddUser>>,
     \* 9: a directive on a top-level field
     QueryDoc(<<>>, <<[UserName("4") EXCEPT !.directives = <<"include">>]>>) >>

ShapeList(choice) ==
  [i \in DOMAIN choice |-> Query(i, ShapeDocuments[choice[i]], EmptyObj)]

InitShapes ==
  /\ \E n \in 0..MaxQueries :
       \E choice \in [1..n -> DOMAIN ShapeDocuments] : queries = ShapeList(choice)
  /\ failing = {}
  /\ stamped = FALSE
  /\ phase = "input"
  /\ merged = mergeSingle(<<>>)
  /\ responses = <<>>
  /\ results = <<>>
  /\ IdleBatch

SpecShapes == InitShapes /\ [][NextEngine]_vars

(***************************************************************************)
(* Further catalogues of inputs for the merge engine used directly.  Each   *)
(* is a list of documents with their variables; an input list has up to     *)
(* MaxQueries queries, each its own Query object.                           *)
(***************************************************************************)
NoVariables(documents) ==
  [d \in DOMAIN documents |-> [definitions |-> documents[d], variables |-> EmptyObj]]

InputsFrom(documents, choice) ==
  [i \in DOMAIN choice |->
     Query(i, documents[choice[i]].definitions, documents[choice[i]].variables)]

InitFrom(documents, failures) ==
  /\ \E n \in 0..MaxQueries :
       \E choice \in [1..n -> DOMAIN documents] : queries = InputsFrom(documents, choice)
  /\ failing \in failures
  /\ stamped = FALSE
  /\ phase = "input"
  /\ merged = mergeSingle(<<>>)
  /\ responses = <<>>
  /\ results = <<>>
  /\ IdleBatch

(***************************************************************************)
(* The unmerge closures on a combined response whose errors the server      *)
(* chooses: any path, or none                                               *)
(***************************************************************************)
ErrorDocuments ==
  NoVariables(
  << \* 1, 2: one field, two arguments
     QueryDoc(<<>>, <<Field("user", "", LitArg("3"), <<Leaf("id"), Leaf("name")>>)>>),
     QueryDoc(<<>>, <<Field("user", "", LitArg("4"), <<Leaf("name")>>)>>),
     \* 3: two output fields of one query that fold onto one combined field
     QueryDoc(<<>>, <<Field("user", "a", LitArg("3"), <<Leaf("id")>>),
                      Field("user", "c", LitArg("3"), <<Leaf("name")>>)>>),
     \* 4: a field that gets no child projector
     QueryDoc(<<>>, <<Field("node", "", LitArg("4"), <<InlineFragment(<<Leaf("name")>>)>>)>>),
     \* 5: a list below a folded field
     QueryDoc(<<>>, <<Field("user", "", LitArg("3"),
                        <<Field("teams", "", <<>>, <<Leaf("name")>>)>>)>>) >>)

ErrorPaths ==
  { <<>>, <<Idx(0)>>,
    <<Key("user")>>, <<Key("user"), Key("name")>>, <<Key("user"), Key("id")>>,
    <<Key("a"), Key("name")>>, <<Key("a"), Key("id")>>,
    <<Key("b"), Key("name")>>, <<Key("node"), Key("name")>>,
    <<Key("user"), Key("teams"), Idx(0), Key("name")>>,
    <<Key("other")>> }
\* one error, with any of the paths or without path; one error followed by
\* one that belongs to every query or to none; and one list of an error of
\* each kind that belongs to no field
ErrorLists ==
  {<<e>> : e \in {PathlessError("request")} \cup {Error("field", path) : path \in ErrorPaths}}
    \cup {<<e, f>> : e \in {PathlessError("request")} \cup {Error("field", path) : path \in ErrorPaths},
                     f \in {PathlessError("request"), Error("field", <<Key("other")>>)}}
    \cup {<<Error("field", <<Key("other")>>), Error("field", <<Idx(0)>>), PathlessError("request")>>}

\* the combined query is answered with its data and the errors `errors`
DispatchWithErrors(errors) ==
  /\ phase = "merged"
  /\ merged.hasMerged
  /\ responses' = [i \in DOMAIN merged.allQueries |->
                     IF i = 1
                     THEN Response(executeOperation(merged.allQueries[i], failing).data,
                                   TRUE, errors)
                     ELSE executeOperation(merged.allQueries[i], failing)]
  /\ phase' = "dispatched"
  /\ UNCHANGED <<failing, queries, stamped, merged, results, batchVars>>

NextErrors ==
  \/ CallMerge
  \/ Dispatch
  \/ \E errors \in ErrorLists : DispatchWithErrors(errors)
  \/ CallUnmergeAllQueries

SpecErrors == InitFrom(ErrorDocuments, {{}}) /\ [][NextErrors]_vars

(***************************************************************************)
(* merge on queries that differ in the variables they declare: their        *)
(* names, declared types, bound values, and the places that refer to them   *)
(***************************************************************************)
VariableDocuments ==
  << \* 1: the README's query
     [definitions |-> QueryDoc(IdDef, <<Field("user", "", IdArg, <<Leaf("name")>>)>>),
      variables |-> Id("3")],
     \* 2: the same name and value, declared with another type
     [definitions |-> QueryDoc(<<VariableDefinition("id", "Int")>>,
                        <<Field("team", "", IdArg, <<Leaf("name")>>)>>),
      variables |-> Id("3")],
     \* 3: two variables, referred to below a field and inside an inline fragment
     [definitions |-> QueryDoc(<<VariableDefinition("id", "Int!"), VariableDefinition("n", "Int!")>>,
                        <<Field("user", "", IdArg,
                            <<InlineFragment(<<Field("team", "", <<Argument("id", Variable("n"))>>,
                                                 <<Field("user", "", IdArg, <<Leaf("id")>>)>>)>>)>>)>>),
      variables |-> [id |-> "4", n |-> "1"]],
     \* 4: a variable inside a list argument
     [definitions |-> QueryDoc(IdDef, <<Field("users", "", <<Argument("ids",
                         ListValue(<<Variable("id")>>))>>, <<Leaf("id")>>)>>),
      variables |-> Id("4")],
     \* 5: another name bound to the value of the README's query
     [definitions |-> QueryDoc(<<VariableDefinition("userId", "Int!")>>,
                        <<Field("user", "", <<Argument("id", Variable("userId"))>>, <<Leaf("id")>>)>>),
      variables |-> [userId |-> "3"]],
     \* 6: a variable whose name is a minted name
     [definitions |-> QueryDoc(<<VariableDefinition("b", "Int!")>>,
                        <<Field("user", "", <<Argument("id", Variable("b"))>>, <<Leaf("name")>>)>>),
      variables |-> [b |-> "5"]] >>

SpecVariables == InitFrom(VariableDocuments, {{}}) /\ [][NextEngine]_vars

(***************************************************************************)
(* merge on queries whose fields differ in what decides whether they are    *)
(* folded: arguments, directives, the kinds of their selections             *)
(***************************************************************************)
FoldDocuments ==
  << \* 1, 2: one field with one literal argument, other selections
     [definitions |-> QueryDoc(<<>>, <<Field("user", "", LitArg("3"), <<Leaf("name")>>)>>),
      variables |-> EmptyObj],
     [definitions |-> QueryDoc(<<>>, <<Field("user", "", LitArg("3"), <<Leaf("id"), Field("teams", "", <<>>, <<Leaf("id")>>)>>)>>),
      variables |-> EmptyObj],
     \* 3, 4: the same two arguments in two orders
     [definitions |-> QueryDoc(<<>>, <<Field("user", "",
                         LitArg("3") \o <<Argument("first", IntValue("1"))>>, <<Leaf("name")>>)>>),
      variables |-> EmptyObj],
     [definitions |-> QueryDoc(<<>>, <<Field("user", "",
                         <<Argument("first", IntValue("1"))>> \o LitArg("3"), <<Leaf("id")>>)>>),
      variables |-> EmptyObj],
     \* 5: a list literal as argument
     [definitions |-> QueryDoc(<<>>, <<Field("users", "", <<Argument("ids",
                         ListValue(<<IntValue("3")>>))>>, <<Leaf("id")>>)>>),
      variables |-> EmptyObj],
     \* 6: a directive on the field
     [definitions |-> QueryDoc(<<>>, <<[Field("user", "", LitArg("3"), <<Leaf("name")>>)
                                         EXCEPT !.directives = <<"include">>]>>),
      variables |-> EmptyObj],
     \* 7: a selection that is not a field
     [definitions |-> QueryDoc(<<>>, <<Field("user", "", LitArg("3"),
                                         <<InlineFragment(<<Leaf("name")>>)>>)>>),
      variables |-> EmptyObj],
     \* 8: two selections of one query that can be folded into each other
     [definitions |-> QueryDoc(<<>>, <<Field("user", "", LitArg("3"),
                                         <<Field("teams", "", <<>>, <<Leaf("name")>>), Field("teams", "", <<>>, <<Leaf("id")>>)>>)>>),
      variables |-> EmptyObj],
     \* 9: two top-level fields of one query that can be folded
     [definitions |-> QueryDoc(<<>>, <<Field("user", "a", LitArg("3"), <<Leaf("id")>>),
                                       Field("user", "c", LitArg("3"), <<Leaf("name")>>)>>),
      variables |-> EmptyObj],
     \* 10, 11: a variable as argument, bound to two values
     [definitions |-> QueryDoc(IdDef, <<Field("user", "", IdArg, <<Leaf("id")>>)>>),
      variables |-> Id("3")],
     [definitions |-> QueryDoc(IdDef, <<Field("user", "", IdArg, <<Leaf("name")>>)>>),
      variables |-> Id("4")] >>

SpecFolding == InitFrom(FoldDocuments, {{}}) /\ [][NextEngine]_vars

(***************************************************************************)
(* The unmerge closures on combined data with objects, lists and nulls; the *)
(* server answers every field, or cannot answer teams of a user             *)
(***************************************************************************)
ProjectionDocuments ==
  NoVariables(
  << \* 1, 2: folded into one field, a list below it
     QueryDoc(<<>>, <<Field("user", "", LitArg("3"), <<Leaf("id"), Field("teams", "", <<>>, <<Leaf("name")>>)>>)>>),
     QueryDoc(<<>>, <<Field("user", "", LitArg("3"), <<Leaf("name")>>)>>),
     \* 3: a record the server does not have
     QueryDoc(<<>>, <<Field("user", "", LitArg(MissingId), <<Leaf("name")>>)>>),
     \* 4: an alias of the caller, folded into the list
     QueryDoc(<<>>, <<Field("user", "me", LitArg("3"), <<Field("teams", "", <<>>, <<Leaf("id")>>)>>)>>),
     \* 5: one output name selected twice
     QueryDoc(<<>>, <<Field("user", "", LitArg("3"), <<Leaf("id")>>),
                      Field("user", "", LitArg("3"), <<Leaf("name")>>)>>),
     \* 6: a field that gets no child projector
     QueryDoc(<<>>, <<Field("node", "", LitArg("4"), <<InlineFragment(<<Leaf("name")>>)>>)>>) >>)

SpecProjection ==
  InitFrom(ProjectionDocuments, { {}, {[parent |-> "user", name |-> "teams"]} })
    /\ [][NextEngine]_vars

(***************************************************************************)
(* merge on queries whose fragment definitions spread other fragments       *)
(***************************************************************************)
FragmentDocuments ==
  NoVariables(
  << \* 1: a fragment that spreads another one
     QueryDoc(<<>>, <<Field("user", "", LitArg("3"), <<FragmentSpread("UserFields")>>)>>)
       \o <<FragmentDefinition(1, "UserFields", <<Leaf("id"), FragmentSpread("NameOnly")>>),
            FragmentDefinition(2, "NameOnly", <<Leaf("name")>>)>>,
     \* 2: other definitions of the same two names
     QueryDoc(<<>>, <<Field("user", "", LitArg("4"), <<FragmentSpread("UserFields")>>)>>)
       \o <<FragmentDefinition(3, "UserFields", <<FragmentSpread("NameOnly")>>),
            FragmentDefinition(4, "NameOnly", <<Leaf("id")>>)>>,
     \* 3: the inner definition of the first document on its own
     QueryDoc(<<>>, <<Field("user", "", LitArg("3"), <<Leaf("id"), FragmentSpread("NameOnly")>>)>>)
       \o <<FragmentDefinition(2, "NameOnly", <<Leaf("name")>>)>>,
     \* 4: a fragment of another name
     QueryDoc(<<>>, <<Field("user", "", LitArg("4"), <<Leaf("name"), FragmentSpread("IdOnly")>>)>>)
       \o <<FragmentDefinition(5, "IdOnly", <<Leaf("id")>>)>> >>)

SpecFragments == InitFrom(FragmentDocuments, {{}}) /\ [][NextEngine]_vars

(***************************************************************************)
(* merge on arrays with identity.  The selections arrays are the only       *)
(* objects merge writes to (push, assignment to an index): they are cells   *)
(* of a heap, a node's selectionSet is the number of the cell that holds    *)
(* its selections (0: no selection set), and nodes are values, as the       *)
(* source makes a new node with every spread.  Here `queries` is the memory *)
(* that holds the inputs: [heap, roots], roots[i] the cell of the top-level *)
(* selections of the i-th query.                                            *)
(***************************************************************************)
\* the selections as a cell of the heap, their children stored before them
RECURSIVE store(_, _), storeFrom(_, _, _, _)
storeFrom(heap, selections, i, nodes) ==
  IF i > Len(selections) THEN [heap |-> Append(heap, nodes), ref |-> Len(heap) + 1]
  ELSE IF selections[i].selectionSet = <<>>
  THEN storeFrom(heap, selections, i + 1, Append(nodes, [selections[i] EXCEPT !.selectionSet = 0]))
  ELSE LET child == store(heap, selections[i].selectionSet)
       IN storeFrom(child.heap, selections, i + 1,
                    Append(nodes, [selections[i] EXCEPT !.selectionSet = child.ref]))
store(heap, selections) == storeFrom(heap, selections, 1, <<>>)

\* the selections a cell holds, read through to the leaves
RECURSIVE deref(_, _)
deref(heap, ref) ==
  IF ref = 0 THEN <<>>
  ELSE [i \in DOMAIN heap[ref] |->
          [heap[ref][i] EXCEPT !.selectionSet = deref(heap, heap[ref][i].selectionSet)]]
\* a node with its selections read one level deep
withSelections(heap, node) ==
  [node EXCEPT !.selectionSet = IF node.selectionSet = 0 THEN <<>> ELSE heap[node.selectionSet]]

\* an assignment through the array itself, without a copy
sliceInPlace(heap, ref) == [heap |-> heap, ref |-> ref]
\* existingSelectionSet.selections.slice()
slice(heap, ref) == [heap |-> Append(heap, heap[ref]), ref |-> Len(heap) + 1]

RECURSIVE firstMergeableOnHeap(_, _, _, _)
firstMergeableOnHeap(heap, existingFields, newField, i) ==
  IF i > Len(heap[existingFields]) THEN 0
  ELSE IF fieldsCanBeMerged(withSelections(heap, heap[existingFields][i]),
                            withSelections(heap, newField))
  THEN i
  ELSE firstMergeableOnHeap(heap, existingFields, newField, i + 1)

\* mergeFields(existingFields, newFields) on the cells existingFields and
\* newFields: the heap it leaves
RECURSIVE mergeFieldsOnHeap(_, _, _), mergeFieldsOnHeapFrom(_, _, _, _, _)
mergeFieldsOnHeapFrom(heap, existingFields, newFields, i, aliasNames) ==
  IF i > Len(heap[newFields]) THEN heap
  ELSE
    LET newField == heap[newFields][i]
        existingFieldIndex == firstMergeableOnHeap(heap, existingFields, newField, 1)
    IN IF existingFieldIndex = 0
       THEN LET minted == uniqueName(aliasNames, outputName(newField))
                alias == IF minted.result = newField.name THEN "" ELSE minted.result
            IN mergeFieldsOnHeapFrom(
                 [heap EXCEPT ![existingFields] = Append(@, [newField EXCEPT !.alias = alias])],
                 existingFields, newFields, i + 1, minted.state)
       ELSE IF heap[existingFields][existingFieldIndex].selectionSet = 0
       THEN mergeFieldsOnHeapFrom(heap, existingFields, newFields, i + 1, aliasNames)
       ELSE LET newSelections == slice(heap, heap[existingFields][existingFieldIndex].selectionSet)
                nested == IF newField.selectionSet # 0
                          THEN mergeFieldsOnHeap(newSelections.heap, newSelections.ref,
                                                 newField.selectionSet)
                          ELSE newSelections.heap
            IN mergeFieldsOnHeapFrom(
                 [nested EXCEPT ![existingFields][existingFieldIndex].selectionSet =
                    newSelections.ref],
                 existingFields, newFields, i + 1, aliasNames)
mergeFieldsOnHeap(heap, existingFields, newFields) ==
  mergeFieldsOnHeapFrom(heap, existingFields, newFields, 1,
    uniqueNameSet({outputName(heap[existingFields][i]) : i \in DOMAIN heap[existingFields]}))

\* mergeDefinitions: `selections` is a new array, every query is folded in
RECURSIVE mergeDefinitionsOnHeapFrom(_, _, _, _)
mergeDefinitionsOnHeapFrom(heap, selections, roots, i) ==
  IF i > Len(roots) THEN [heap |-> heap, ref |-> selections]
  ELSE mergeDefinitionsOnHeapFrom(mergeFieldsOnHeap(heap, selections, roots[i]),
                                  selections, roots, i + 1)
\* merge(queries): nothing is merged for fewer than two queries
mergeOnHeap(memory) ==
  IF Len(memory.roots) < 2 THEN [heap |-> memory.heap, ref |-> 0]
  ELSE mergeDefinitionsOnHeapFrom(Append(memory.heap, <<>>), Len(memory.heap) + 1,
                                  memory.roots, 1)

HeapDocuments ==
  << \* 1, 2: folded into one field, and one level below
     <<Field("user", "", LitArg("3"), <<Leaf("id"), Field("teams", "", <<>>, <<Leaf("name")>>)>>)>>,
     <<Field("user", "", LitArg("3"), <<Leaf("name"), Field("teams", "", <<>>, <<Leaf("id")>>)>>)>>,
     \* 3: another argument
     <<Field("user", "", LitArg("4"), <<Leaf("name")>>)>>,
     \* 4: two fields of one query that are folded
     <<Field("user", "a", LitArg("3"), <<Leaf("id")>>),
       Field("user", "c", LitArg("3"), <<Leaf("name")>>)>>,
     \* 5: a field that is never folded
     <<Field("node", "", LitArg("4"), <<InlineFragment(<<Leaf("name")>>)>>)>> >>

\* the memory after the documents choice[i..] were stored behind `memory`
RECURSIVE storeAll(_, _, _)
storeAll(memory, choice, i) ==
  IF i > Len(choice) THEN memory
  ELSE LET stored == store(memory.heap, HeapDocuments[choice[i]])
       IN storeAll([heap |-> stored.heap, roots |-> Append(memory.roots, stored.ref)],
                   choice, i + 1)

InitHeap ==
  /\ \E n \in 0..MaxQueries :
       \E choice \in [1..n -> DOMAIN HeapDocuments] :
         queries = storeAll([heap |-> <<>>, roots |-> <<>>], choice, 1)
  /\ failing = {}
  /\ stamped = FALSE
  /\ phase = "input"
  /\ merged = [selections |-> 0, document |-> <<>>]
  /\ responses = <<>>
  /\ results = <<>>
  /\ IdleBatch

\* a call of merge leaves the memory, and returns the combined selections
MergeOnHeap ==
  /\ phase = "input"
  /\ LET called == mergeOnHeap(queries)
     IN /\ queries' = [queries EXCEPT !.heap = called.heap]
        /\ merged' = [selections |-> called.ref,
                      document |-> deref(called.heap, called.ref)]
  /\ phase' = "merged"
  /\ UNCHANGED <<failing, stamped, responses, results, batchVars>>

\* a second call of merge on the same Query objects
MergeAgain ==
  /\ phase = "merged"
  /\ LET called == mergeOnHeap(queries)
     IN /\ queries' = [queries EXCEPT !.heap = called.heap]
        /\ results' = deref(called.heap, called.ref)
  /\ phase' = "remerged"
  /\ UNCHANGED <<failing, stamped, merged, responses, batchVars>>

NextHeap == MergeOnHeap \/ MergeAgain

SpecHeap == InitHeap /\ [][NextHeap]_vars

(***************************************************************************)
(* Batch                                                                    *)
(***************************************************************************)
\* the documents queued: 2 (foldable with itself), 5 (the non-nullable
\* field), 6 (not mergeable), 7 (another value of $id, in a list argument)
BatchDocuments == {2, 5, 6, 7}
\* the server loses the field user once it has answered a request
Degrading == [parent |-> "#", name |-> "#degrading"]
BatchFailures ==
  { {},
    {[parent |-> "", name |-> "teamRequired"]},
    {Unscoped},
    {[parent |-> "", name |-> "teamRequired"], Degrading} }

\* the promise of one queue() call; `settles` counts the calls of its
\* resolve / reject pair
PendingHandle == [state |-> "pending", value |-> NoResponse, settles |-> 0]
settle(h, state, value) ==
  IF h.state = "pending"
  THEN [state |-> state, value |-> value, settles |-> h.settles + 1]
  ELSE [h EXCEPT !.settles = @ + 1]

\* the failure the executor call c rejects with
Failure(c) == [failure |-> c]

Call(pass, q, role) ==
  [pass |-> pass, query |-> q, role |-> role, status |-> "pending", response |-> NoResponse]
Pass(input, isSecondAttempt, awaitedBy) ==
  [input |-> input, isSecondAttempt |-> isSecondAttempt, awaitedBy |-> awaitedBy]

\* the executor calls of a pass whose input merged into m: one per unmerged
\* query, then the combined one
dispatch(st, input, isSecondAttempt, awaitedBy, m) ==
  LET p == Len(st.passes) + 1
  IN [passes |-> Append(st.passes, Pass(input, isSecondAttempt, awaitedBy)),
      calls |-> st.calls
                \o [i \in DOMAIN m.unmergedQueries |-> Call(p, m.unmergedQueries[i], "unmerged")]
                \o (IF m.hasMerged THEN <<Call(p, m.mergedQuery, "merged")>> ELSE <<>>)]

\* _runAndReport(input, isSecondAttempt) up to its await: the pass is
\* recorded and the executor is invoked for every unmerged query and then for
\* the combined one; awaitedBy is the pass whose handler awaits this one
\* (0: the caller is run(), -1: the promise is not awaited)
runAndReport(st, input, isSecondAttempt, awaitedBy) ==
  IF Len(input) = 0
  THEN [st EXCEPT !.passes = Append(@, Pass(input, isSecondAttempt, awaitedBy))]
  ELSE dispatch(st, input, isSecondAttempt, awaitedBy, merge(input))

\* the pass is over: its Promise.all has resolved
RECURSIVE passDone(_, _, _)
passDone(ps, cs, p) ==
  /\ \A c \in DOMAIN cs : cs[c].pass = p => cs[c].status # "pending"
  /\ \A p2 \in DOMAIN ps : ps[p2].awaitedBy = p => passDone(ps, cs, p2)

\* unmerged.map((response, i) => ...) of the split step, from index i on
RECURSIVE splitFrom(_, _, _, _, _)
splitFrom(st, input, unmerged, i, nextBatch) ==
  IF i > Len(unmerged) THEN [st |-> st, nextBatch |-> nextBatch]
  ELSE IF unmerged[i].hasErrors
  THEN splitFrom(runAndReport(st, <<input[i]>>, TRUE, -1), input, unmerged, i + 1, nextBatch)
  ELSE splitFrom(st, input, unmerged, i + 1, Append(nextBatch, input[i]))

\* the for loop that resolves the handles of the merged queries, from i on
RECURSIVE resolveFrom(_, _, _, _, _)
resolveFrom(hs, mergedQueries, unmerged, mergedResults, i) ==
  IF i > Len(unmerged) THEN hs
  ELSE resolveFrom(
         [hs EXCEPT ![mergedQueries[i].oid] =
            settle(@, "resolved",
                   IF ~unmerged[i].hasErrors /\ mergedResults.hasErrors
                   THEN [unmerged[i] EXCEPT !.hasErrors = TRUE, !.errors = mergedResults.errors]
                   ELSE unmerged[i])],
         mergedQueries, unmerged, mergedResults, i + 1)

\* the catch handler rejecting every handle of the batch
rejectEveryHandle(hs, mergedQueries, err, i) ==
  [j \in DOMAIN hs |-> settle(hs[j], "rejected", err)]

\* for (const q of merged.mergedQueries) res.reject(err)
RECURSIVE rejectFrom(_, _, _, _)
rejectFrom(hs, mergedQueries, err, i) ==
  IF i > Len(mergedQueries) THEN hs
  ELSE rejectFrom([hs EXCEPT ![mergedQueries[i].oid] = settle(@, "rejected", err)],
                  mergedQueries, err, i + 1)

\* the split step entered without looking at results.errors
shouldSplitWithoutErrors(r, input, isSecondAttempt) ==
  ~isSecondAttempt /\ Len(input) > 1

\* the condition of the split step
shouldSplit(r, input, isSecondAttempt) ==
  r.hasErrors /\ Len(r.errors) > 0 /\ ~isSecondAttempt /\ Len(input) > 1

InitBatch ==
  /\ failing \in BatchFailures
  /\ IdleEngine
  /\ IdleBatch

\* the passes and executor calls st become the state
passesStarted(st) ==
  /\ passes' = st.passes
  /\ calls' = st.calls

\* queue() without the check of _started
QueueWithoutCheck(d) ==
  /\ Len(queue) < MaxQueue
  /\ queue' = Append(queue, Query(Len(queue) + 1, Documents[d].definitions,
                                  Documents[d].variables))
  /\ handles' = Append(handles, PendingHandle)
  /\ api' = [op |-> "queue", threw |-> FALSE]
  /\ UNCHANGED <<failing, engineVars, started, passes, calls, runState>>

\* batch.queue({query, variables})
Queue(d) ==
  /\ IF started
     THEN /\ api' = [op |-> "queue", threw |-> TRUE]
          /\ UNCHANGED <<queue, handles>>
     ELSE /\ Len(queue) < MaxQueue
          /\ queue' = Append(queue, Query(Len(queue) + 1, Documents[d].definitions,
                                          Documents[d].variables))
          /\ handles' = Append(handles, PendingHandle)
          /\ api' = [op |-> "queue", threw |-> FALSE]
  /\ UNCHANGED <<failing, engineVars, started, passes, calls, runState>>

\* batch.run(), up to the await
Run ==
  /\ IF started
     THEN /\ api' = [op |-> "run", threw |-> TRUE]
          /\ UNCHANGED <<started, passes, calls, runState>>
     ELSE /\ started' = TRUE
          /\ passesStarted(runAndReport([passes |-> passes, calls |-> calls], queue, FALSE, 0))
          /\ runState' = "running"
             /\ api' = [op |-> "run", threw |-> FALSE]
  /\ UNCHANGED <<failing, engineVars, queue, handles>>

retryAsFirstAttempt(split, pass) == runAndReport(split.st, split.nextBatch, FALSE, pass)

\* the split step: the erroring queries one by one, then the others together
retry(split, pass) == runAndReport(split.st, split.nextBatch, TRUE, pass)

\* the then handler of the combined call c: r is the response, done the
\* calls with c resolved, m the merge of the pass, unmerged its split of r
mergedThen(c, r, done, pass, m, unmerged) ==
  IF shouldSplit(r, pass.input, pass.isSecondAttempt)
  THEN /\ passesStarted(retry(splitFrom([passes |-> passes, calls |-> done],
                                        pass.input, unmerged, 1, <<>>),
                              calls[c].pass))
       /\ UNCHANGED handles
  ELSE /\ handles' = resolveFrom(handles, m.mergedQueries, unmerged, r, 1)
       /\ calls' = done
       /\ UNCHANGED passes

\* const unmerged = merged.unmergeMergedQueries(results)
mergedResolved(c, r, done, pass, m) ==
  mergedThen(c, r, done, pass, m, unmergeMergedQueries(m, r))

\* the executor call c has resolved with r
resolved(c, r, pass) ==
  IF calls[c].role = "unmerged"
  THEN /\ handles' = [handles EXCEPT ![calls[c].query.oid] = settle(@, "resolved", r)]
       /\ calls' = [calls EXCEPT ![c].status = "resolved", ![c].response = r]
       /\ UNCHANGED passes
  ELSE mergedResolved(c, r, [calls EXCEPT ![c].status = "resolved", ![c].response = r],
                      pass, merge(pass.input))

\* what the server cannot satisfy when it answers the next request
failingNow ==
  IF Degrading \in failing /\ \E d \in DOMAIN calls : calls[d].status = "resolved"
  THEN failing \cup {[parent |-> "", name |-> "user"]}
  ELSE failing

\* the executor call c resolves with the server's response; the continuation
\* of the call runs
ExecutorResolves(c) ==
  /\ calls[c].status = "pending"
  /\ resolved(c, executeOperation(calls[c].query, failingNow), passes[calls[c].pass])
  /\ UNCHANGED <<failing, engineVars, started, queue, runState, api>>

\* the executor call c rejects
ExecutorRejects(c) ==
  /\ calls[c].status = "pending"
  /\ calls' = [calls EXCEPT ![c].status = "rejected"]
  /\ handles' = IF calls[c].role = "unmerged"
                THEN [handles EXCEPT ![calls[c].query.oid] = settle(@, "rejected", Failure(c))]
                ELSE rejectFrom(handles, merge(passes[calls[c].pass].input).mergedQueries,
                                Failure(c), 1)
  /\ UNCHANGED <<failing, engineVars, started, queue, passes, runState, api>>

\* the promise run() returned resolves
RunReturns ==
  /\ runState = "running"
  /\ passDone(passes, calls, 1)
  /\ runState' = "finished"
  /\ UNCHANGED <<failing, engineVars, started, queue, handles, passes, calls, api>>

NextBatch ==
  \/ \E d \in BatchDocuments : Queue(d)
  \/ Run
  \/ \E c \in DOMAIN calls : ExecutorResolves(c)
  \/ \E c \in DOMAIN calls : ExecutorRejects(c)
  \/ RunReturns

SpecBatch == InitBatch /\ [][NextBatch]_vars

(***************************************************************************)
(* Properties of the merge engine, under SpecEngine                         *)
(***************************************************************************)
\* input query i is dispatched on its own
unfolded(i) == merged.single \/ ~canMerge(queries[i])
\* its position among the queries dispatched on their own
rank(i) == Cardinality({j \in 1..i : unfolded(j)})
offset == IF merged.hasMerged THEN 1 ELSE 0
RECURSIVE unfoldedFrom(_)
unfoldedFrom(i) ==
  IF i > Len(queries) THEN <<>>
  ELSE (IF unfolded(i) THEN <<queries[i]>> ELSE <<>>) \o unfoldedFrom(i + 1)
allCanMerge == \A i \in DOMAIN queries : canMerge(queries[i])

\* C3: round trip.  For two or more mergeable queries and a server that
\* answers every field (so that its answers cannot depend on batching),
\* unmergeAllQueries of the responses to allQueries equals, position by
\* position, the responses to the input queries dispatched one by one.
C3_RoundTrip ==
  (phase = "unmerged" /\ ~stamped /\ Len(queries) >= 2 /\ allCanMerge /\ failing = {})
    => \A i \in DOMAIN queries : results[i] = executeOperation(queries[i], failing)

aliasesOf(i) == {merged.extractResults[i][j].alias : j \in DOMAIN merged.extractResults[i]}
theError == responses[1].errors[1]
\* three combined queries, one error, rooted at a field only the 2nd selected
OnlySecondFails ==
  /\ phase = "unmerged" /\ ~stamped /\ Len(queries) = 3 /\ allCanMerge
  /\ responses[1].hasErrors /\ Len(responses[1].errors) = 1
  /\ theError.hasPath /\ theError.path # <<>> /\ theError.path[1].k = "key"
  /\ theError.path[1].v \in aliasesOf(2) \ (aliasesOf(1) \cup aliasesOf(3))
\* the name query 2 gave the field the error is rooted at
ownOutput ==
  LET j == CHOOSE j \in DOMAIN merged.extractResults[2] :
             merged.extractResults[2][j].alias = theError.path[1].v
  IN merged.extractResults[2][j].output

\* every argument of the top-level fields of q is a variable or a scalar
plainArguments(q) ==
  \A s \in Range(q.definitions[1].selectionSet) :
    \A a \in Range(s.arguments) : a.value.kind \in ScalarKinds \cup {"Variable"}

\* C4: error isolation.  When three queries (with plain arguments) are
\* combined and the combined response (with data) has exactly one error,
\* rooted at a top-level field only the 2nd query selected, queries 1 and 3
\* get no errors and the data of a direct call, and query 2 gets that error
\* with the path in its own output names.
C4_ErrorIsolation ==
  (/\ OnlySecondFails /\ responses[1].data # Null
   /\ \A i \in DOMAIN queries : plainArguments(queries[i])) =>
    /\ \A i \in {1, 3} : /\ ~results[i].hasErrors
                         /\ results[i].data = executeOperation(queries[i], failing).data
    /\ results[2].hasErrors
    /\ results[2].errors =
         <<[theError EXCEPT !.path = <<Key(ownOutput)>> \o Tail(theError.path)]>>

\* C9: merge([q]) has no combined query, no merged queries, unmergedQueries
\* and allQueries equal to [q], and unmergeAllQueries returns its argument.
C9_Singleton ==
  (phase # "input" /\ Len(queries) = 1) =>
    /\ ~merged.hasMerged /\ merged.mergedQuery = NoQuery /\ merged.mergedQueries = <<>>
    /\ merged.unmergedQueries = queries /\ merged.allQueries = queries
    /\ (phase = "unmerged" => results = responses)
C9_Witness ==
  /\ phase = "unmerged" /\ Len(queries) = 1 /\ canMerge(queries[1])
  /\ results = <<executeOperation(queries[1], failing)>>

\* C10: allQueries is the combined query (when there is one) followed by the
\* queries dispatched on their own in input order; unmergeAllQueries returns
\* one response per input query, in input order, and each query dispatched
\* on its own gets the response at its own position of allQueries.
C10_Order ==
  /\ phase # "input" =>
       merged.allQueries =
         (IF merged.hasMerged THEN <<merged.mergedQuery>> ELSE <<>>) \o unfoldedFrom(1)
  /\ phase = "unmerged" =>
       /\ Len(results) = Len(queries)
       /\ \A i \in DOMAIN queries :
            unfolded(i) => results[i] = responses[offset + rank(i)]

(***************************************************************************)
(* Properties of Batch, under SpecBatch                                     *)
(***************************************************************************)
callsPending == \E c \in DOMAIN calls : calls[c].status = "pending"
settled(i) == handles[i].state # "pending"
allMergeable == \A i \in DOMAIN queue : canMerge(queue[i])
\* the queries folded into the combined query of call c
folded(c) == merge(passes[calls[c].pass].input).mergedQueries
foldedOids(c) == {folded(c)[j].oid : j \in DOMAIN folded(c)}

\* C1: once run() was called and every executor call has completed, every
\* handle queue() returned is settled.
C1_EveryHandleSettles ==
  (started /\ ~callsPending) => \A i \in DOMAIN handles : settled(i)

\* C2: when the promise of run() resolves, every executor call of the run
\* has completed and every handle is settled.
C2_RunAwaitsEverything ==
  runState = "finished" => /\ ~callsPending
                           /\ \A i \in DOMAIN handles : settled(i)

isFail(i) == queue[i].definitions[1].selectionSet[1].name = "teamRequired"
RequiredFieldFails ==
  /\ started /\ ~callsPending /\ allMergeable
  /\ failing = {[parent |-> "", name |-> "teamRequired"]}
  /\ Cardinality({i \in DOMAIN queue : isFail(i)}) = 1
  /\ \A c \in DOMAIN calls : calls[c].status = "resolved"

\* C5: all queued queries mergeable, exactly one selects a non-nullable
\* top-level field the server cannot satisfy: its handle resolves with that
\* error and no data, every sibling's handle resolves without errors and
\* with the data of a direct call.
C5_RequiredField ==
  RequiredFieldFails => \A i \in DOMAIN queue :
    /\ handles[i].state = "resolved"
    /\ IF isFail(i)
       THEN handles[i].value =
              Response(Null, TRUE, <<Error("teamRequired", <<Key("teamRequired")>>)>>)
       ELSE /\ ~handles[i].value.hasErrors
            /\ handles[i].value.data = executeOperation(queue[i], failing).data

\* handle i after one more call of its reject, with the failure of call c
rejectedBy(i, c) ==
  /\ handles'[i].settles = handles[i].settles + 1
  /\ IF handles[i].state = "pending"
     THEN handles'[i].state = "rejected" /\ handles'[i].value = Failure(c)
     ELSE handles'[i].state = handles[i].state /\ handles'[i].value = handles[i].value

\* C6: transport failure scope.  When the executor call for a combined query
\* rejects, the handle of every query folded into it rejects with that
\* failure and no other handle changes; when the call for one query
\* dispatched on its own rejects, reject is called on that query's handle
\* and no other handle changes; and the handle of an unmergeable query
\* settles with the outcome of an executor call made for that query.
C6_TransportFailureScope ==
  [][/\ \A c \in DOMAIN calls :
          (calls[c].status = "pending" /\ calls'[c].status = "rejected") =>
            \A i \in DOMAIN handles :
              IF calls[c].role = "merged" /\ i \in foldedOids(c)
              THEN /\ handles[i].state = "pending"
                   /\ handles'[i].state = "rejected"
                   /\ handles'[i].value = Failure(c)
              ELSE IF calls[c].role = "unmerged" /\ i = calls[c].query.oid
              THEN rejectedBy(i, c)
              ELSE handles'[i] = handles[i]
     /\ \A i \in DOMAIN handles :
          (~canMerge(queue[i]) /\ handles[i].state = "pending"
             /\ handles'[i].state # "pending") =>
            \E c \in DOMAIN calls :
              /\ calls[c].role = "unmerged" /\ calls[c].query.oid = i
              /\ calls[c].status = "pending"
              /\ handles'[i].state = calls'[c].status
              /\ handles'[i].value = IF calls'[c].status = "resolved"
                                     THEN calls'[c].response ELSE Failure(c)
    ]_vars
\* a combined call of two queries rejected next to an unmergeable query of
\* the same pass whose own call resolved
C6_Witness ==
  \E c \in DOMAIN calls :
    /\ calls[c].role = "merged" /\ calls[c].status = "rejected"
    /\ Cardinality(foldedOids(c)) >= 2
    /\ \A i \in foldedOids(c) : handles[i].state = "rejected" /\ handles[i].value = Failure(c)
    /\ \E u \in DOMAIN calls :
         /\ calls[u].pass = calls[c].pass /\ calls[u].role = "unmerged"
         /\ calls[u].status = "resolved"
         /\ handles[calls[u].query.oid].state = "resolved"

\* C7: _started only goes from false to true, on the first run(); every
\* queue() and run() call after that throws a usage error, leaves the queue
\* and the handles alone and starts no pass and no executor call.
C7_OneShot ==
  [][/\ (~started /\ started') => (api'.op = "run" /\ ~api'.threw)
     /\ started =>
          /\ started'
          /\ api' # api => /\ api'.threw
                           /\ queue' = queue /\ handles' = handles
                           /\ calls' = calls /\ passes' = passes
    ]_vars
\* queue() threw after the run had finished
C7_Witness ==
  /\ started /\ runState = "finished" /\ Len(queue) >= 1
  /\ api = [op |-> "queue", threw |-> TRUE]

\* C8: two or more queries queued, all mergeable, the combined response
\* without errors: the executor is invoked exactly once, with the combined
\* query, and every handle is resolved from that response.
C8_SingleRequest ==
  (/\ started /\ Len(queue) >= 2 /\ allMergeable
   /\ calls[1].status # "rejected" /\ ~calls[1].response.hasErrors) =>
    /\ Len(calls) = 1
    /\ calls[1].role = "merged"
    /\ calls[1].status = "resolved" =>
         \A i \in DOMAIN handles :
           handles[i] = [state |-> "resolved",
                         value |-> unmergeMergedQueries(merge(queue), calls[1].response)[i],
                         settles |-> 1]
C8_Witness ==
  /\ started /\ Len(queue) >= 2 /\ allMergeable
  /\ Len(calls) = 1 /\ calls[1].status = "resolved" /\ ~calls[1].response.hasErrors
  /\ \A i \in DOMAIN handles : handles[i].state = "resolved"

(***************************************************************************)
(* Properties of the combined document, under SpecEngine                    *)
(***************************************************************************)
\* the operation of the combined document
combinedOperation == merged.mergedQuery.definitions[1]
\* the top-level field of the k-th merged query, and the combined field it reads
ownField(k) == merged.mergedQueries[k].definitions[1].selectionSet[1]
combinedField(k) ==
  LET i == CHOOSE i \in DOMAIN combinedOperation.selectionSet :
             outputName(combinedOperation.selectionSet[i]) = merged.extractResults[k][1].alias
  IN combinedOperation.selectionSet[i]
\* the k-th merged query passes its variable directly as the field's argument
usesVariable(k) ==
  /\ Len(ownField(k).arguments) = 1
  /\ ownField(k).arguments[1].value.kind = "Variable"
\* the combined variable that stands for it, and the value the query bound
combinedVariable(k) == combinedField(k).arguments[1].value.name
boundValue(k) ==
  Get(merged.mergedQueries[k].variables, ownField(k).arguments[1].value.name)
declarations(name) ==
  {i \in DOMAIN combinedOperation.variableDefinitions :
     combinedOperation.variableDefinitions[i].name = name}

entriesOf(name) ==
  {i \in DOMAIN combinedOperation.selectionSet : combinedOperation.selectionSet[i].name = name}
unaliased(name) == {i \in entriesOf(name) : combinedOperation.selectionSet[i].alias = ""}
sameFieldOtherArguments(j, k) ==
  /\ j # k
  /\ ownField(j).name = ownField(k).name
  /\ ~argumentsAreEqual(ownField(j).arguments, ownField(k).arguments)
\* no merged query selects the field under an alias of its own
noCallerAlias(name) ==
  \A k \in DOMAIN merged.mergedQueries : ownField(k).name = name => ownField(k).alias = ""
\* no entry for another field has taken the name as its output name
nameIsFree(name) ==
  \A i \in DOMAIN combinedOperation.selectionSet :
    combinedOperation.selectionSet[i].name # name =>
      outputName(combinedOperation.selectionSet[i]) # name

\* C12 as stated: two merged queries that select the same top-level field
\* with different arguments get two distinct entries of the combined
\* document, and exactly one entry for that field name has no alias
C12_AsStated ==
  (phase # "input" /\ merged.hasMerged) =>
    \A j, k \in DOMAIN merged.mergedQueries :
      sameFieldOtherArguments(j, k) =>
        /\ combinedField(j) # combinedField(k)
        /\ Cardinality(unaliased(ownField(k).name)) = 1

\* C12: two merged queries that select the same top-level field with
\* different arguments get two distinct entries of the combined document;
\* when no merged query selects that field under an alias of its own and no
\* other entry has taken the field's name as its output name, exactly one
\* entry for the field name has no alias
C12_AliasCollision ==
  (phase # "input" /\ merged.hasMerged) =>
    \A j, k \in DOMAIN merged.mergedQueries :
      sameFieldOtherArguments(j, k) =>
        /\ combinedField(j) # combinedField(k)
        /\ (noCallerAlias(ownField(k).name) /\ nameIsFree(ownField(k).name)) =>
             Cardinality(unaliased(ownField(k).name)) = 1

C12_Witness ==
  /\ phase = "merged"
  /\ merged.hasMerged
  /\ Len(merged.mergedQueries) = 3
  /\ ownField(1).name = "b"
  /\ sameFieldOtherArguments(2, 3)
  /\ ownField(2).alias = ""
  /\ ownField(3).alias = ""
  /\ combinedField(2).alias = ""
  /\ combinedField(3).alias = "c"

(***************************************************************************)
(* Names the combined document declares, under SpecNames                    *)
(***************************************************************************)
declared == combinedOperation.variableDefinitions
emitted == selectDefinitions(merged.mergedQuery.definitions, {"FragmentDefinition"})
pairwiseDistinct(names) == \A i, j \in DOMAIN names : i # j => names[i] # names[j]
namesOf(defs) == [i \in DOMAIN defs |-> defs[i].name]

\* C13: in every combined document the declared variable names are pairwise
\* distinct and the emitted fragment definition names are pairwise distinct,
\* also when a query brings a name that the alphabetic sequence mints
C13_NameUniqueness ==
  (phase # "input" /\ merged.hasMerged) =>
    /\ pairwiseDistinct(namesOf(declared))
    /\ pairwiseDistinct(namesOf(emitted))

\* the third query brings $b and fragment b after both were minted
C13_Witness ==
  /\ phase = "merged"
  /\ merged.hasMerged
  /\ Len(merged.mergedQueries) = 3
  /\ merged.mergedQueries[3].definitions[1].variableDefinitions[1].name = "b"
  /\ merged.mergedQueries[3].definitions[2].name = "b"
  /\ namesOf(declared) = <<"id", "b", "c">>
  /\ namesOf(emitted) = <<"UserTeams", "b", "c">>

(***************************************************************************)
(* The eligibility filter, under SpecShapes                                 *)
(***************************************************************************)
operationsOf(q) == selectDefinitions(q.definitions, {"OperationDefinition"})
fragmentsOf(q) == selectDefinitions(q.definitions, {"FragmentDefinition"})
\* exactly one operation, a query with no directives, of plain fields
oneQueryOfFields(q) ==
  /\ Len(operationsOf(q)) = 1
  /\ operationsOf(q)[1].operation = "query"
  /\ Len(operationsOf(q)[1].directives) = 0
  /\ allFields(operationsOf(q)[1].selectionSet)
plainFragments(q) == \A i \in DOMAIN fragmentsOf(q) : Len(fragmentsOf(q)[i].directives) = 0
isMerged(i) == \E k \in DOMAIN merged.mergedQueries : merged.mergedQueries[k] = queries[i]
isUnmerged(i) == \E k \in DOMAIN merged.unmergedQueries : merged.unmergedQueries[k] = queries[i]

\* C14 as stated: in a list of two or more queries, a query is in
\* mergedQueries exactly when its document has one operation, a query with
\* no directives whose top-level selections are all fields; every other
\* query is in unmergedQueries, unmodified
C14_AsStated ==
  (phase # "input" /\ Len(queries) >= 2) =>
    \A i \in DOMAIN queries :
      /\ isMerged(i) <=> oneQueryOfFields(queries[i])
      /\ ~oneQueryOfFields(queries[i]) => isUnmerged(i)

\* C14: in a list of two or more queries, a query is in mergedQueries
\* exactly when its document has one operation, a query with no directives
\* whose top-level selections are all fields, and none of its fragment
\* definitions carries directives; every other query is in unmergedQueries,
\* unmodified
C14_Eligibility ==
  (phase # "input" /\ Len(queries) >= 2) =>
    \A i \in DOMAIN queries :
      /\ isMerged(i) <=> (oneQueryOfFields(queries[i]) /\ plainFragments(queries[i]))
      /\ isMerged(i) # isUnmerged(i)

C14_Witness ==
  /\ phase = "merged"
  /\ Len(queries) = 3
  /\ isMerged(1) /\ Len(fragmentsOf(queries[1])) = 1
  /\ isUnmerged(2) /\ Len(operationsOf(queries[2])) = 2
  /\ isUnmerged(3) /\ oneQueryOfFields(queries[3]) /\ ~plainFragments(queries[3])

(***************************************************************************)
(* The passes of one run(), under SpecBatch                                 *)
(***************************************************************************)
\* C15: during one run() the resolve/reject pair of every queued query's
\* handle is invoked at most once
C15_SingleProducer == \A i \in DOMAIN handles : handles[i].settles <= 1

(***************************************************************************)
(* Fragments of the combined document, under SpecNames                      *)
(***************************************************************************)
ownFragments(k) == fragmentsOf(merged.mergedQueries[k])
emittedAs(oid) == {i \in DOMAIN emitted : emitted[i].oid = oid}
definitionsNamed(defs, name) == {defs[i].oid : i \in {j \in DOMAIN defs : defs[j].name = name}}
\* own and combined are one selection set before and after the renaming
RECURSIVE spreadsNameOwn(_, _, _)
spreadsNameOwn(own, combined, k) ==
  /\ Len(own) = Len(combined)
  /\ \A p \in DOMAIN own :
       IF own[p].kind = "FragmentSpread"
       THEN /\ combined[p].kind = "FragmentSpread"
            /\ definitionsNamed(emitted, combined[p].name) =
                 definitionsNamed(ownFragments(k), own[p].name)
       ELSE spreadsNameOwn(own[p].selectionSet, combined[p].selectionSet, k)

\* C16: every fragment definition of a merged query is emitted exactly once,
\* with its own body, however many queries carry it; the emitted names are
\* pairwise distinct; the spreads of a query's entry of the combined
\* document name the definitions of that query, and so each query gets the
\* data it gets when dispatched alone
C16_Fragments ==
  (phase # "input" /\ merged.hasMerged) =>
    /\ \A k \in DOMAIN merged.mergedQueries : \A i \in DOMAIN ownFragments(k) :
         /\ Cardinality(emittedAs(ownFragments(k)[i].oid)) = 1
         /\ \A e \in emittedAs(ownFragments(k)[i].oid) :
              [emitted[e] EXCEPT !.name = ownFragments(k)[i].name] = ownFragments(k)[i]
    /\ pairwiseDistinct(namesOf(emitted))
    /\ \A k \in DOMAIN merged.mergedQueries :
         ~allFields(ownField(k).selectionSet) =>
           spreadsNameOwn(ownField(k).selectionSet, combinedField(k).selectionSet, k)
    /\ phase = "unmerged" =>
         \A i \in DOMAIN queries : results[i].data = executeOperation(queries[i], failing).data

\* three queries, two of them with one and the same definition, the third
\* with another definition of the same name
C16_Witness ==
  /\ phase = "unmerged"
  /\ merged.hasMerged
  /\ Len(merged.mergedQueries) = 3
  /\ ownFragments(1)[1].oid = ownFragments(2)[1].oid
  /\ ownFragments(3)[1].oid # ownFragments(1)[1].oid
  /\ ownFragments(3)[1].name = ownFragments(1)[1].name
  /\ Len(emitted) = 2
  /\ combinedField(3).selectionSet[1] = FragmentSpread("b")

\* the combined call c of a first pass is answered, in this step, by a
\* response with errors
firstPassErrors(c) ==
  /\ calls[c].role = "merged"
  /\ calls[c].status = "pending"
  /\ ~passes[calls[c].pass].isSecondAttempt
  /\ calls'[c].status = "resolved"
  /\ calls'[c].response.hasErrors
  /\ Len(calls'[c].response.errors) > 0
\* the slices the response of c is projected to, one per merged query
slices(c) == unmergeMergedQueries(merge(passes[calls[c].pass].input), calls'[c].response)
erroring(c) == {k \in DOMAIN folded(c) : slices(c)[k].hasErrors}
RECURSIVE others(_, _, _)
others(mergedQueries, errors, i) ==
  IF i > Len(mergedQueries) THEN <<>>
  ELSE (IF i \in errors THEN <<>> ELSE <<mergedQueries[i]>>) \o others(mergedQueries, errors, i + 1)
startedNow == (Len(passes) + 1)..Len(passes')
calledNow == (Len(calls) + 1)..Len(calls')

\* C17: when the combined response of a first pass has errors, the step
\* resolves no handle; it starts one pass for each merged query whose slice
\* has errors, with that query alone, which is passed to the executor as it
\* was queued; it starts one more pass with all the other merged queries;
\* it starts no other pass
C17_SplitAndRetry ==
  [][\A c \in DOMAIN calls :
       firstPassErrors(c) =>
         /\ handles' = handles
         /\ Len(passes') = Len(passes) + Cardinality(erroring(c)) + 1
         /\ \A n \in startedNow : passes'[n].isSecondAttempt
         /\ \A k \in erroring(c) :
              /\ \E n \in startedNow \ {Len(passes')} : passes'[n].input = <<folded(c)[k]>>
              /\ \E d \in calledNow : calls'[d].query = queue[folded(c)[k].oid]
         /\ passes'[Len(passes')].input = others(folded(c), erroring(c), 1)]_vars

\* the query the split step dispatches again for slice k of the call c:
\* the input of the k-th pass for an erroring slice, in the order of the
\* slices, or the entry of the retry batch for the k-th slice without errors
redispatched(c, k) ==
  LET before == Cardinality({j \in 1..k : j \in erroring(c)})
  IN IF k \in erroring(c)
     THEN passes'[Len(passes) + before].input[1]
     ELSE passes'[Len(passes')].input[k - before]

\* C18: in the split step the query dispatched again for the i-th slice is
\* the i-th merged query, whatever else the input of the pass holds
C18_SplitIndex ==
  [][\A c \in DOMAIN calls :
       firstPassErrors(c) =>
         \A k \in DOMAIN folded(c) : redispatched(c, k) = folded(c)[k]]_vars

\* the executor calls that cover the queued query i: the calls for the query
\* itself and the combined calls it is folded into
covering(i) ==
  {c \in DOMAIN calls :
     IF calls[c].role = "merged"
     THEN \E j \in DOMAIN passes[calls[c].pass].input :
            passes[calls[c].pass].input[j].oid = i /\ canMerge(queue[i])
     ELSE calls[c].query.oid = i}
inRetry(c) == passes[calls[c].pass].isSecondAttempt

\* C19: no pass started as a retry splits (the pass that awaits a retry
\* batch is the pass that split, and it is never a retry pass itself); every
\* queued query is covered by one executor call of the first pass and by at
\* most one call of a retry pass; and once no executor call is pending the
\* promise of run() can resolve
C19_BoundedRetry ==
  /\ \A p \in DOMAIN passes :
       passes[p].awaitedBy > 0 => ~passes[passes[p].awaitedBy].isSecondAttempt
  /\ started =>
       \A i \in DOMAIN queue :
         /\ Cardinality({c \in covering(i) : ~inRetry(c)}) = 1
         /\ Cardinality({c \in covering(i) : inRetry(c)}) <= 1
  /\ (runState = "running" /\ ~callsPending) => passDone(passes, calls, 1)

\* every response carried errors, the one of the combined call of the retry
\* pass too, and run() has returned
C19_Witness ==
  /\ runState = "finished"
  /\ ~callsPending
  /\ \A c \in DOMAIN calls : calls[c].status = "resolved" /\ calls[c].response.hasErrors
  /\ \E c \in DOMAIN calls : calls[c].role = "merged" /\ inRetry(c)
  /\ \E i \in DOMAIN queue : Cardinality(covering(i)) = 2

\* the output names of the top-level fields the queued query i selects
ownRoots(i) ==
  {outputName(queue[i].definitions[1].selectionSet[j]) :
     j \in DOMAIN queue[i].definitions[1].selectionSet}

\* C20: every error of the response a handle resolves with is path-less or
\* has a path rooted at a top-level field of the handle's own query
C20_ErrorAttribution ==
  \A i \in DOMAIN handles :
    (handles[i].state = "resolved" /\ handles[i].value.hasErrors) =>
      \A e \in DOMAIN handles[i].value.errors :
        handles[i].value.errors[e].hasPath =>
          handles[i].value.errors[e].path[1].v \in ownRoots(i)

(***************************************************************************)
(* Errors of the combined response, under SpecEngine                        *)
(***************************************************************************)
combinedErrors == IF responses[1].hasErrors THEN responses[1].errors ELSE <<>>
\* the first field mapping of the merged query k whose alias is the first
\* string step of the path (0: none)
matching(k, path) ==
  IF keyIndexOf(path) = 0 THEN 0
  ELSE findIndexFrom(merged.extractResults[k],
                     {f \in Range(merged.extractResults[k]) : f.alias = path[keyIndexOf(path)].v},
                     1)

\* C21: when the first string step of a combined error path is the alias of
\* a field mapping without child projector, the remapped path is the
\* original path with only that step replaced by the mapping's output name
C21_PathWithoutChildren ==
  (phase \in {"dispatched", "unmerged"} /\ merged.hasMerged) =>
    \A k \in DOMAIN merged.extractResults : \A e \in DOMAIN combinedErrors :
      LET path == combinedErrors[e].path
          f == merged.extractResults[k][matching(k, path)]
      IN (combinedErrors[e].hasPath /\ matching(k, path) # 0 /\ f.children.type = "none") =>
           errorPath(path, merged.extractResults[k]) =
             SomePath([path EXCEPT ![keyIndexOf(path)] = Key(f.output)])

(***************************************************************************)
(* Errors the server chose, under SpecErrors                                *)
(***************************************************************************)
\* the error list of the merged query k of an input list of mergeable queries
ownErrors(k) == IF results[k].hasErrors THEN results[k].errors ELSE <<>>
unscoped(error) == ~error.hasPath \/ keyIndexOf(error.path) = 0
foreign(k, error) == ~unscoped(error) /\ matching(k, error.path) = 0
occurrences(errors, error) == Cardinality({i \in DOMAIN errors : errors[i] = error})

\* C22: an error of the combined response without path, or without string
\* step in its path, is in the error list of every merged query, unchanged;
\* an error whose first string step is the alias of none of a query's field
\* mappings adds nothing to that query's error list
C22_UnscopedAndForeign ==
  (phase = "unmerged" /\ merged.hasMerged) =>
    \A k \in DOMAIN merged.mergedQueries :
      /\ \A e \in DOMAIN combinedErrors :
           unscoped(combinedErrors[e]) =>
             occurrences(ownErrors(k), combinedErrors[e]) >=
               occurrences(combinedErrors, combinedErrors[e])
      /\ Len(ownErrors(k)) <=
           Cardinality({e \in DOMAIN combinedErrors : ~foreign(k, combinedErrors[e])})

\* of an error at a field of neither query, an error with a path of indexes
\* only and a path-less error, the last two reach both queries
C22_Witness ==
  /\ phase = "unmerged"
  /\ Len(merged.mergedQueries) = 2
  /\ combinedErrors =
       <<Error("field", <<Key("other")>>), Error("field", <<Idx(0)>>), PathlessError("request")>>
  /\ ownErrors(1) = <<Error("field", <<Idx(0)>>), PathlessError("request")>>
  /\ ownErrors(2) = ownErrors(1)

(***************************************************************************)
(* Variables of the combined document, under SpecVariables                  *)
(***************************************************************************)
\* the type the k-th merged query declared for the variable its top-level
\* field passes, and the type the combined document declares for the
\* variable the combined field passes in its place
declaredType(k) ==
  LET vardefs == merged.mergedQueries[k].definitions[1].variableDefinitions
      i == CHOOSE i \in DOMAIN vardefs : vardefs[i].name = ownField(k).arguments[1].value.name
  IN vardefs[i].type
combinedType(k) ==
  LET i == CHOOSE i \in declarations(combinedVariable(k)) : TRUE
  IN combinedOperation.variableDefinitions[i].type

\* C23: a variable reference of the combined document refers to a
\* definition with the type the originating query declared for it: two
\* variables are mapped onto one combined variable only if their declared
\* types are equal
C23_TypesAgree ==
  (phase # "input" /\ merged.hasMerged) =>
    \A k \in DOMAIN merged.mergedQueries :
      usesVariable(k) => combinedType(k) = declaredType(k)

\* the names of the variables a value, and a selection tree, refers to
RECURSIVE valueReferences(_)
valueReferences(v) ==
  IF v.kind = "Variable" THEN {v.name}
  ELSE IF v.kind = "ListValue"
  THEN UNION {valueReferences(v.values[i]) : i \in DOMAIN v.values}
  ELSE {}
RECURSIVE references(_)
references(set) ==
  UNION {IF set[i].kind = "Field"
         THEN UNION {valueReferences(set[i].arguments[j].value) : j \in DOMAIN set[i].arguments}
                \cup references(set[i].selectionSet)
         ELSE IF set[i].kind = "InlineFragment" THEN references(set[i].selectionSet)
         ELSE {} : i \in DOMAIN set}

\* the operation of the k-th merged query, and what mergeDefinitions has
\* collected when it comes to that query
ownOperation(k) == queryOps(merged.mergedQueries[k].definitions)[1]
collectedBefore(k) ==
  mergeDefinitionsFrom(
    [i \in 1..(k - 1) |-> [query |-> ownOperation(i),
                           variables |-> merged.mergedQueries[i].variables]],
    1,
    [variableNames |-> uniqueNameSet({}), variableDefinitions |-> <<>>,
     variables |-> EmptyObj, selections |-> <<>>, extractResults |-> <<>>])
\* what the loop over the k-th query's variables leaves: the resolved names
\* (variableMapping) and the combined definitions and bindings so far
resolvedVariables(k, collected) ==
  mergeVariables(ownOperation(k).variableDefinitions, merged.mergedQueries[k].variables, 1,
    [variableNames |-> collected.variableNames,
     variableDefinitions |-> collected.variableDefinitions,
     variables |-> collected.variables,
     variableMapping |-> EmptyObj])
variableMappingOf(k) == resolvedVariables(k, collectedBefore(k)).variableMapping
resolvedName(variableMapping, name) ==
  IF name \in DOMAIN variableMapping THEN variableMapping[name] ELSE name

\* C24: the selection tree of a merged query, after its variables got their
\* resolved names, refers to the resolved names of the variables the query
\* referred to, at any depth, inside inline fragments and inside list values,
\* and to no other name
C24_ReferencesRenamed ==
  (phase # "input" /\ merged.hasMerged) =>
    \A k \in DOMAIN merged.mergedQueries :
      references(renameVariables(ownOperation(k).selectionSet, variableMappingOf(k)))
        = {resolvedName(variableMappingOf(k), name) : name \in references(ownOperation(k).selectionSet)}

\* C30: for every merged query and every variable it declares, the combined
\* variables map binds the variable's resolved name to the value the query
\* bound to the original name
C30_BindingsPreserved ==
  (phase # "input" /\ merged.hasMerged) =>
    \A k \in DOMAIN merged.mergedQueries :
      \A d \in DOMAIN ownOperation(k).variableDefinitions :
        Get(merged.mergedQuery.variables,
            resolvedName(variableMappingOf(k), ownOperation(k).variableDefinitions[d].name))
          = Get(merged.mergedQueries[k].variables, ownOperation(k).variableDefinitions[d].name)
\* of three queries the first keeps its name, the second gets a minted name
\* and the third reuses the variable of the first
C30_Witness ==
  /\ phase = "merged" /\ merged.hasMerged /\ Len(merged.mergedQueries) = 3
  /\ variableMappingOf(1) = EmptyObj
  /\ variableMappingOf(2) = [id |-> "b"]
  /\ variableMappingOf(3) = [userId |-> "id"]
  /\ merged.mergedQuery.variables = [id |-> "3", b |-> "4"]

(***************************************************************************)
(* Folding of fields, under SpecFolding                                     *)
(***************************************************************************)
\* the top-level fields of the k-th merged query as they are folded (none
\* of these queries has a fragment to rename)
ownFields(k) == renameVariables(ownOperation(k).selectionSet, variableMappingOf(k))

\* the rule: the same name, no directives, the same set of arguments
\* (a variable is its name, a literal its kind and value), fields only
foldable(a, b) ==
  /\ a.name = b.name
  /\ a.directives = <<>> /\ b.directives = <<>>
  /\ Range(a.arguments) = Range(b.arguments)
  /\ allFields(a.selectionSet) /\ allFields(b.selectionSet)
firstFoldable(existingFields, newField) ==
  LET into == {i \in DOMAIN existingFields : foldable(existingFields[i], newField)}
  IN IF into = {} THEN 0 ELSE CHOOSE i \in into : \A j \in into : i <= j

\* newField is placed by the rule: `before` and `after` are the existing
\* fields around the step, f the first foldable field or 0
RECURSIVE placedByRule(_, _, _, _, _), foldedByRule(_, _, _)
placedByRule(before, after, newField, mapping, f) ==
  IF f = 0
  THEN /\ Len(after) = Len(before) + 1
       /\ SubSeq(after, 1, Len(before)) = before
       /\ [after[Len(after)] EXCEPT !.alias = newField.alias] = newField
       /\ mapping.alias = outputName(after[Len(after)])
  ELSE /\ Len(after) = Len(before)
       /\ \A i \in DOMAIN before : i # f => after[i] = before[i]
       /\ [after[f] EXCEPT !.selectionSet = before[f].selectionSet] = before[f]
       /\ mapping.alias = outputName(before[f])
       /\ (before[f].selectionSet # <<>> /\ newField.selectionSet # <<>>) =>
            /\ mapping.children.type = "map"
            /\ Len(mapping.children.mappings) = Len(newField.selectionSet)
            /\ foldedByRule(before[f].selectionSet, newField.selectionSet,
                            mapping.children.mappings)
\* every field of newFields is placed by the rule, at this level and below
foldedByRule(existingFields, newFields, fieldMappings) ==
  \A j \in DOMAIN newFields :
    placedByRule(mergeFields(existingFields, SubSeq(newFields, 1, j - 1)).existingFields,
                 mergeFields(existingFields, SubSeq(newFields, 1, j)).existingFields,
                 newFields[j], fieldMappings[j],
                 firstFoldable(mergeFields(existingFields, SubSeq(newFields, 1, j - 1)).existingFields,
                               newFields[j]))

\* C25: a new field is folded into the first existing field of the combined
\* tree that has the same name and the same set of arguments, where neither
\* has directives nor a selection that is not a field, and it is appended as
\* a separate entry when there is no such field
C25_FoldingRule ==
  (phase # "input" /\ merged.hasMerged) =>
    \A k \in DOMAIN merged.mergedQueries :
      foldedByRule(collectedBefore(k).selections, ownFields(k), merged.extractResults[k])

(***************************************************************************)
(* Delivery of the combined errors, under SpecErrors                        *)
(***************************************************************************)
\* the path lies under a field the selection set, or the field mappings of
\* a merged query, ask for: some field of that output name (some mapping of
\* that alias) at the first string step, and so on below it
RECURSIVE requestedInSet(_, _), requestedInMappings(_, _)
requestedInSet(set, path) ==
  IF keyIndexOf(path) = 0 \/ set = <<>> \/ ~allFields(set) THEN TRUE
  ELSE \E i \in DOMAIN set :
         /\ outputName(set[i]) = path[keyIndexOf(path)].v
         /\ requestedInSet(set[i].selectionSet, Slice(path, keyIndexOf(path) + 1, Len(path)))
requestedInMappings(mappings, path) ==
  IF keyIndexOf(path) = 0 THEN TRUE
  ELSE \E i \in DOMAIN mappings :
         /\ mappings[i].alias = path[keyIndexOf(path)].v
         /\ IF mappings[i].children.type = "none" THEN TRUE
            ELSE IF mappings[i].children.type = "set"
            THEN requestedInSet(mappings[i].children.set,
                                Slice(path, keyIndexOf(path) + 1, Len(path)))
            ELSE requestedInMappings(mappings[i].children.mappings,
                                     Slice(path, keyIndexOf(path) + 1, Len(path)))
\* the path starts at a top-level key of the combined document
atTopLevelKey(path) ==
  /\ Len(path) > 0
  /\ path[1].k = "key"
  /\ \E i \in DOMAIN combinedOperation.selectionSet :
       outputName(combinedOperation.selectionSet[i]) = path[1].v
\* the k-th merged query got the error, under whatever path
delivered(k, error) ==
  \E i \in DOMAIN ownErrors(k) :
    ownErrors(k)[i].hasPath /\ ownErrors(k)[i].message = error.message

\* C26: every error of the combined response whose path starts at a
\* top-level key of the combined document and lies under a field some merged
\* query requested is in the error list of at least one merged query
C26_NoErrorLost ==
  (phase = "unmerged" /\ merged.hasMerged) =>
    \A e \in DOMAIN combinedErrors :
      ( /\ combinedErrors[e].hasPath
        /\ atTopLevelKey(combinedErrors[e].path)
        /\ \E k \in DOMAIN merged.extractResults :
             requestedInMappings(merged.extractResults[k], combinedErrors[e].path) )
      => \E k \in DOMAIN merged.mergedQueries : delivered(k, combinedErrors[e])

(***************************************************************************)
(* Projection of the combined data, under SpecProjection                    *)
(***************************************************************************)
combinedData == responses[1].data
\* what the child projector of a mapping makes of the slot
childProjection(mapping, slot) ==
  IF mapping.children.type = "none" THEN slot
  ELSE IF mapping.children.type = "set" THEN selectSelectionSet(slot, mapping.children.set)
  ELSE selectByFieldMappings(slot, mapping.children.mappings)
\* `value` holds `projection`: the same scalar or null, a list of the same
\* length that holds it element by element, an object with its keys
RECURSIVE holds(_, _)
holds(value, projection) ==
  IF projection.t = "arr"
  THEN /\ value.t = "arr"
       /\ Len(value.e) = Len(projection.e)
       /\ \A i \in DOMAIN projection.e : holds(value.e[i], projection.e[i])
  ELSE IF projection.t = "obj"
  THEN /\ value.t = "obj"
       /\ \A key \in DOMAIN projection.f :
            key \in DOMAIN value.f /\ holds(value.f[key], projection.f[key])
  ELSE value = projection

\* C27: for each field mapping of a merged query the output key of the
\* query's data holds the projection of the value under the mapping's alias
\* in the combined data; a null slot gives null, a list a list of the same
\* length
C27_Projection ==
  (phase = "unmerged" /\ merged.hasMerged /\ combinedData.t = "obj") =>
    \A k \in DOMAIN merged.extractResults :
      \A m \in DOMAIN merged.extractResults[k] :
        /\ holds(valueAt(results[k].data, merged.extractResults[k][m].output),
                 childProjection(merged.extractResults[k][m],
                                 valueAt(combinedData, merged.extractResults[k][m].alias)))
        /\ valueAt(combinedData, merged.extractResults[k][m].alias) = Null =>
             valueAt(results[k].data, merged.extractResults[k][m].output) = Null

(***************************************************************************)
(* Spreads of the combined document, under SpecFragments                    *)
(***************************************************************************)
\* C28: every fragment spread of the combined document, in the entry of a
\* merged query and in the emitted definition of each of its fragments,
\* names an emitted definition, and that is the definition the spread
\* named in the query it comes from
C28_SpreadsResolve ==
  (phase # "input" /\ merged.hasMerged) =>
    \A k \in DOMAIN merged.mergedQueries :
      /\ ~allFields(ownField(k).selectionSet) =>
           spreadsNameOwn(ownField(k).selectionSet, combinedField(k).selectionSet, k)
      /\ \A i \in DOMAIN ownFragments(k) :
           \A e \in emittedAs(ownFragments(k)[i].oid) :
             spreadsNameOwn(ownFragments(k)[i].selectionSet, emitted[e].selectionSet, k)

(***************************************************************************)
(* The inputs in memory, under SpecHeap                                     *)
(***************************************************************************)
\* the selection trees of the input queries as the memory holds them
inputs == [i \in DOMAIN queries.roots |-> deref(queries.heap, queries.roots[i])]

\* C29: a call of merge leaves the selection trees of every input query as
\* they were, also when a query is folded into a field that was appended
\* from an earlier query, and a second call on the same inputs yields the
\* same combined selections
C29_InputsNotMutated ==
  [][/\ inputs' = inputs
     /\ phase' = "remerged" => results' = merged.document]_vars
\* the second of two queries was folded into the field appended from the
\* first, one level below too, and merge was called twice
C29_Witness ==
  /\ phase = "remerged"
  /\ Len(queries.roots) = 2
  /\ inputs[1] = HeapDocuments[1]
  /\ inputs[2] = HeapDocuments[2]
  /\ Len(merged.document) = 1
  /\ merged.document[1].selectionSet =
       <<Leaf("id"), Field("teams", "", <<>>, <<Leaf("name"), Leaf("id")>>), Leaf("name")>>
  /\ results = merged.document

====
